---------------------------- MODULE Spec2Model ----------------------------
(***************************************************************************)
(* AF_XDP packet replicator (af_xdp_zero_copy_perf_benchmark):             *)
(* the socket wrapper (AFXDPSocket), its rings shared with the kernel,     *)
(* the per-queue replicator workers and the destination registry           *)
(* (PacketReplicator).                                                     *)
(*                                                                         *)
(* Ring operations of libxdp are modelled at their call sites:             *)
(*   xsk_ring_prod__reserve(r, nb) grants nb slots when nb are free and 0  *)
(*   otherwise; xsk_ring_cons__peek(r, nb) yields min(available, nb).      *)
(* A ring is the sequence of the entries the producer has published and    *)
(* the consumer has not yet released.                                      *)
(***************************************************************************)
EXTENDS Integers, Sequences, FiniteSets, TLC

-----------------------------------------------------------------------------
(* Sizes.  The program's sizes (2048 TX frames, 2048 RX frames, batches of *)
(* 64) are scaled down; the relations between them used by the code are    *)
(* kept: TX_BATCH_SIZE < TX_FRAMES, tx ring = TX_FRAMES slots, rx ring =   *)
(* RX_FRAMES slots, fill ring = 2 * RX_FRAMES, completion ring =           *)
(* 2 * TX_FRAMES.                                                          *)

TX_FRAMES == 4
RX_FRAMES == 2
TX_BATCH_SIZE == 2
RX_BATCH == 2
FRAME_SIZE == 4096
UMEM_RX_FIRST_FRAME_IX == TX_FRAMES
TX_RING_SIZE == TX_FRAMES
RX_RING_SIZE == RX_FRAMES
FILL_RING_SIZE == RX_FRAMES * 2
COMP_RING_SIZE == TX_FRAMES * 2

(* Bounds of the exploration: frames the kernel delivers in a run with a   *)
(* fixed registry and in a run with the control thread, wrapper calls of   *)
(* the API driver, and operations in a registry law.                       *)
MaxPackets == 3
MaxPacketsCtl == 1
MaxApiCalls == 5
MaxRegOps == 2

Min(a, b) == IF a < b THEN a ELSE b

Range(s) == {s[i] : i \in 1..Len(s)}

Occurrences(s, x) == Cardinality({i \in 1..Len(s) : s[i] = x})

-----------------------------------------------------------------------------
(* Destinations.  An IPv4 address on the wire is four bytes; the registry  *)
(* keys a destination by the dotted-decimal string inet_ntoa makes of it   *)
(* and by the host-order port.  Strings are sequences of character codes.  *)

DOT == 46
ZERO == 48

RECURSIVE DecDigits(_)
DecDigits(n) == IF n < 10 THEN <<ZERO + n>>
                ELSE Append(DecDigits(n \div 10), ZERO + (n % 10))

formatIpAddress(ip) ==
    DecDigits(ip[1]) \o <<DOT>> \o DecDigits(ip[2]) \o <<DOT>> \o
    DecDigits(ip[3]) \o <<DOT>> \o DecDigits(ip[4])

(* inet_aton on a dotted-decimal string: the four numbers, or <<>> when    *)
(* the string is not four decimal numbers in 0..255.                       *)
RECURSIVE ParseParts(_, _, _, _)
ParseParts(str, cur, ndig, acc) ==
    IF str = <<>>
    THEN IF ndig = 0 THEN <<>> ELSE Append(acc, cur)
    ELSE IF Head(str) = DOT
         THEN IF ndig = 0 THEN <<>>
              ELSE ParseParts(Tail(str), 0, 0, Append(acc, cur))
         ELSE IF Head(str) < ZERO \/ Head(str) > ZERO + 9 THEN <<>>
              ELSE ParseParts(Tail(str), cur * 10 + (Head(str) - ZERO), ndig + 1, acc)

parseIpAddress(str) ==
    LET p == ParseParts(str, 0, 0, <<>>)
    IN  IF Len(p) = 4 /\ \A i \in 1..4 : p[i] <= 255 THEN p ELSE <<>>

(* std::string operator< : lexicographic on the character codes. *)
RECURSIVE StrLess(_, _)
StrLess(a, b) ==
    IF b = <<>> THEN FALSE
    ELSE IF a = <<>> THEN TRUE
    ELSE IF Head(a) # Head(b) THEN Head(a) < Head(b)
    ELSE StrLess(Tail(a), Tail(b))

(* Destination::Destination: the string and the port; addr.sin_addr is the *)
(* string parsed by inet_aton.                                             *)
Destination(ipStr, port) == [ip_address |-> ipStr, port |-> port]

DestinationAddr(d) == parseIpAddress(d.ip_address)

DestinationValid(ipStr) == parseIpAddress(ipStr) # <<>>

(* Destination::operator< *)
DestLess(a, b) ==
    IF a.ip_address # b.ip_address
    THEN StrLess(a.ip_address, b.ip_address)
    ELSE a.port < b.port

DestEquiv(a, b) == ~DestLess(a, b) /\ ~DestLess(b, a)

(* std::set<Destination>: a sequence strictly increasing by operator<. *)
IsSortedSet(reg) == \A i \in 1..(Len(reg) - 1) : DestLess(reg[i], reg[i + 1])

(* Variant of insert that does not look for an equivalent key. *)
SetInsertAlways(reg, d) ==
    LET k == Cardinality({i \in 1..Len(reg) : DestLess(reg[i], d)})
    IN  SubSeq(reg, 1, k) \o <<d>> \o SubSeq(reg, k + 1, Len(reg))

(* std::set::insert: nothing when an equivalent key is present. *)
SetInsert(reg, d) ==
    IF \E i \in 1..Len(reg) : DestEquiv(reg[i], d)
    THEN reg
    ELSE LET k == Cardinality({i \in 1..Len(reg) : DestLess(reg[i], d)})
         IN  SubSeq(reg, 1, k) \o <<d>> \o SubSeq(reg, k + 1, Len(reg))

(* std::set::erase(key) *)
SetErase(reg, d) == SelectSeq(reg, LAMBDA e : ~DestEquiv(e, d))

(* The addresses and ports the control client sends in the model. *)
IpSet == {<<10, 0, 0, 9>>, <<10, 0, 0, 10>>}
PortSet == {9100, 9101}
DestKeys == IpSet \X PortSet


-----------------------------------------------------------------------------
(* Received frames.  A frame is described by the header fields the worker  *)
(* reads: its length, EtherType, IP protocol, IHL and UDP length.  The     *)
(* classifier redirects only IPv4 UDP frames with complete headers; it     *)
(* does not read the UDP length field.                                     *)

ETH_P_IP == 2048
IPPROTO_UDP == 17
ETH_HLEN == 14
UDP_HLEN == 8
IP_HLEN == 20

HelloFrame == [len |-> 47, h_proto |-> ETH_P_IP, protocol |-> IPPROTO_UDP, ihl |-> 5, udp_len |-> 13]
BadLenFrame == [len |-> 47, h_proto |-> ETH_P_IP, protocol |-> IPPROTO_UDP, ihl |-> 5, udp_len |-> 40]
PacketKinds == {HelloFrame, BadLenFrame}

(* Variant of extractUdpPayload that trusts the UDP length field. *)
extractUdpPayloadUnverified(f) ==
    IF f.len < ETH_HLEN + IP_HLEN + UDP_HLEN THEN -1
    ELSE IF f.h_proto # ETH_P_IP THEN -1
    ELSE IF f.protocol # IPPROTO_UDP THEN -1
    ELSE IF f.ihl * 4 < 20 THEN -1
    ELSE IF f.len < ETH_HLEN + f.ihl * 4 + UDP_HLEN THEN -1
    ELSE IF f.udp_len < UDP_HLEN THEN -1
    ELSE f.udp_len - UDP_HLEN

(* PacketReplicator::extractUdpPayload: the payload length, or -1 when the *)
(* frame is rejected.                                                      *)
extractUdpPayload(f) ==
    IF f.len < ETH_HLEN + IP_HLEN + UDP_HLEN THEN -1
    ELSE IF f.h_proto # ETH_P_IP THEN -1
    ELSE IF f.protocol # IPPROTO_UDP THEN -1
    ELSE IF f.ihl * 4 < 20 THEN -1
    ELSE LET headers_len == ETH_HLEN + f.ihl * 4 + UDP_HLEN
         IN  IF f.len < headers_len THEN -1
             ELSE IF f.udp_len < UDP_HLEN \/ f.udp_len > (f.len - headers_len) + UDP_HLEN
                  THEN -1
                  ELSE f.udp_len - UDP_HLEN

(* Variant of createUdpPacket without the test against the buffer size. *)
createUdpPacketUnchecked(payloadLen, bufferSize) ==
    ETH_HLEN + IP_HLEN + UDP_HLEN + payloadLen

(* PacketReplicator::createUdpPacket: the frame length, or 0 when the      *)
(* packet does not fit the buffer.                                         *)
createUdpPacket(payloadLen, bufferSize) ==
    LET total_len == ETH_HLEN + IP_HLEN + UDP_HLEN + payloadLen
    IN  IF total_len > bufferSize THEN 0 ELSE total_len

-----------------------------------------------------------------------------
(* The socket wrapper and its rings.                                       *)
(*   tx   TX ring: descriptors submitted, not yet taken by the kernel      *)
(*   ktx  descriptors the kernel has taken and not yet completed           *)
(*   cq   completion ring: entries posted by the kernel, not yet released; *)
(*        the first cached_completions_ of them have been peeked           *)
(*   fq   fill ring;  rx  RX ring                                          *)

(* Variant of the reservation that grants entries only on an empty ring.  *)
ReserveOnEmptyRing(used, size, nb) == IF used = 0 /\ size >= nb THEN nb ELSE 0

xsk_ring_prod__reserve(used, size, nb) == IF size - used >= nb THEN nb ELSE 0

xsk_ring_cons__peek(avail, nb) == Min(avail, nb)

(* Variant of bind that fills the fill ring from frame 0 of the UMEM. *)
BoundSocketFromFrameZero ==
    LET reserved == xsk_ring_prod__reserve(0, FILL_RING_SIZE, RX_FRAMES)
    IN  [tx |-> <<>>, ktx |-> <<>>, cq |-> <<>>,
         fq |-> [i \in 1..reserved |-> (i - 1) * FRAME_SIZE],
         rx |-> <<>>,
         pending_recycle_addrs_ |-> <<>>,
         prev_umem_tx_frame_ |-> 0,
         cached_completions_ |-> 0,
         outstanding_tx_ |-> 0,
         closed_ |-> FALSE]

(* AFXDPSocket::AFXDPSocket, setupUMem and bind: the fill ring holds the   *)
(* RX-region addresses.                                                    *)
BoundSocket ==
    LET reserved == xsk_ring_prod__reserve(0, FILL_RING_SIZE, RX_FRAMES)
    IN  [tx |-> <<>>, ktx |-> <<>>, cq |-> <<>>,
         fq |-> [i \in 1..reserved |-> (UMEM_RX_FIRST_FRAME_IX + (i - 1)) * FRAME_SIZE],
         rx |-> <<>>,
         pending_recycle_addrs_ |-> <<>>,
         prev_umem_tx_frame_ |-> 0,
         cached_completions_ |-> 0,
         outstanding_tx_ |-> 0,
         closed_ |-> FALSE]

(* Variant of pollTxCompletions that subtracts only the completions seen   *)
(* by this call.                                                           *)
PollReleaseNew(s) ==
    IF s.outstanding_tx_ = 0 THEN s
    ELSE LET new_completions ==
                 xsk_ring_cons__peek(Len(s.cq) - s.cached_completions_, TX_FRAMES)
             cached == s.cached_completions_ + new_completions
         IN  IF new_completions = 0 THEN s
             ELSE IF cached < TX_BATCH_SIZE
                  THEN [s EXCEPT !.cached_completions_ = cached]
                  ELSE [s EXCEPT !.cq = SubSeq(s.cq, cached + 1, Len(s.cq)),
                                 !.outstanding_tx_ = @ - new_completions,
                                 !.cached_completions_ = 0]

(* Variant of pollTxCompletions that keeps cached_completions_ after the   *)
(* release.                                                                *)
PollKeepsCache(s) ==
    IF s.outstanding_tx_ = 0 THEN s
    ELSE LET new_completions ==
                 xsk_ring_cons__peek(Len(s.cq) - Min(s.cached_completions_, Len(s.cq)),
                                     TX_FRAMES)
             cached == s.cached_completions_ + new_completions
         IN  IF new_completions = 0 THEN s
             ELSE IF cached < TX_BATCH_SIZE
                  THEN [s EXCEPT !.cached_completions_ = cached]
                  ELSE [s EXCEPT !.cq = SubSeq(s.cq, Min(cached, Len(s.cq)) + 1, Len(s.cq)),
                                 !.outstanding_tx_ = @ - cached]

(* AFXDPSocket::pollTxCompletions *)
pollTxCompletions(s) ==
    IF s.outstanding_tx_ = 0 THEN s
    ELSE LET new_completions ==
                 xsk_ring_cons__peek(Len(s.cq) - s.cached_completions_, TX_FRAMES)
             cached == s.cached_completions_ + new_completions
         IN  IF new_completions = 0 THEN s
             ELSE IF cached < TX_BATCH_SIZE
                  THEN [s EXCEPT !.cached_completions_ = cached]
                  ELSE [s EXCEPT !.cq = SubSeq(s.cq, cached + 1, Len(s.cq)),
                                 !.outstanding_tx_ = @ - cached,
                                 !.cached_completions_ = 0]

(* AFXDPSocket::getNextTxFrame: the frame number handed out.  The cursor   *)
(* is kept modulo TX_FRAMES (fetch_add(1) % tx_frames_).                   *)
getNextTxFrame(s) == s.prev_umem_tx_frame_ % TX_FRAMES

AdvanceTxFrame(s) ==
    [s EXCEPT !.prev_umem_tx_frame_ = (@ + 1) % TX_FRAMES]

(* AFXDPSocket::setTxDescriptor + submitTxRing for the descriptors descs.  *)
submitTxRing(s, descs) ==
    [s EXCEPT !.tx = @ \o descs, !.outstanding_tx_ = @ + Len(descs)]

(* A TX frame the kernel may still read: its descriptor is submitted and   *)
(* its completion entry is not yet released.                               *)
TxInFlight(s) ==
    {s.tx[i].addr : i \in 1..Len(s.tx)} \cup Range(s.ktx) \cup Range(s.cq)

(* AFXDPSocket::sendBatch: the wrapper afterwards, the number enqueued and *)
(* outstanding_tx_ as the back-pressure check saw it.                      *)
sendBatch(s, descs, batchSize) ==
    LET s1 == pollTxCompletions(s)
        bs == Min(batchSize, TX_BATCH_SIZE)
        ret == xsk_ring_prod__reserve(Len(s1.tx), TX_RING_SIZE, bs)
    IN  IF s1.outstanding_tx_ > TX_FRAMES - TX_BATCH_SIZE
        THEN [s |-> s1, ret |-> 0, polled |-> s1.outstanding_tx_]
        ELSE IF bs <= 0
        THEN [s |-> s1, ret |-> 0, polled |-> s1.outstanding_tx_]
        ELSE IF ret = 0
        THEN [s |-> s1, ret |-> 0, polled |-> s1.outstanding_tx_]
        ELSE [s |-> submitTxRing(s1, SubSeq(descs, 1, ret)), ret |-> ret,
              polled |-> s1.outstanding_tx_]

(* AFXDPSocket::receive: up to max descriptors leave the RX ring and their *)
(* addresses replace the pending-recycle list.                             *)
receive(s, max) ==
    LET received == xsk_ring_cons__peek(Len(s.rx), max)
    IN  IF received > 0
        THEN [s |-> [s EXCEPT !.rx = SubSeq(s.rx, received + 1, Len(s.rx)),
                              !.pending_recycle_addrs_ =
                                  [i \in 1..received |-> s.rx[i].addr]],
              batch |-> SubSeq(s.rx, 1, received)]
        ELSE [s |-> s, batch |-> <<>>]

(* Variant of recycleFrames that forgets the pending addresses. *)
recycleFramesForgets(s) == [s EXCEPT !.pending_recycle_addrs_ = <<>>]

(* AFXDPSocket::recycleFrames *)
recycleFrames(s) ==
    IF s.pending_recycle_addrs_ = <<>> THEN s
    ELSE LET free_capacity ==
                 xsk_ring_prod__reserve(Len(s.fq), FILL_RING_SIZE,
                                        Len(s.pending_recycle_addrs_))
         IN  [s EXCEPT !.fq = @ \o SubSeq(s.pending_recycle_addrs_, 1, free_capacity),
                       !.pending_recycle_addrs_ = <<>>]


-----------------------------------------------------------------------------
(* The worker's transmit path.                                             *)

(* PacketReplicator::sendToDestinationFallback: sendto on the conventional *)
(* UDP socket returned sendtoRet.                                          *)
sendToDestinationFallback(length, sendtoRet) ==
    IF sendtoRet < 0 THEN FALSE ELSE sendtoRet = length

(* PacketReplicator::sendSinglePacketDirect on an open wrapper.            *)
(*   sent     the return value                                             *)
(*   reserve  what reserveTxRing returned (-1: not called)                 *)
(*   frame    the TX frame address handed out and written                  *)
(*   wrote    createUdpPacket wrote the frame                              *)
(*   busy     that frame was still in flight when it was handed out        *)
(*   polled   outstanding_tx_ after pollTxCompletions                      *)
sendSinglePacketDirect(s, payloadLen) ==
    LET s1 == pollTxCompletions(s)
        tx_frame_number == getNextTxFrame(s1)
        s2 == AdvanceTxFrame(s1)
        tx_frame_addr == tx_frame_number * 4096
        packet_len == createUdpPacket(payloadLen, 4096)
        ret == xsk_ring_prod__reserve(Len(s2.tx), TX_RING_SIZE, 1)
        base == [s |-> s2, sent |-> FALSE, reserve |-> -1, frame |-> tx_frame_addr,
                 wrote |-> packet_len # 0,
                 busy |-> tx_frame_addr \in TxInFlight(s1),
                 polled |-> s1.outstanding_tx_, fallback |-> "none"]
    IN  IF packet_len = 0 THEN base
        ELSE IF ret # 1 THEN [base EXCEPT !.reserve = ret]
        ELSE [base EXCEPT !.s = submitTxRing(s2, <<[addr |-> tx_frame_addr,
                                                    len |-> packet_len]>>),
                          !.sent = TRUE, !.reserve = 1]

(* The result when the send goes to the conventional socket instead. *)
FallbackResult(s, payloadLen, sendtoRet) ==
    [s |-> s, sent |-> sendToDestinationFallback(payloadLen, sendtoRet),
     reserve |-> -1, frame |-> -1, wrote |-> FALSE, busy |-> FALSE,
     polled |-> s.outstanding_tx_,
     fallback |-> IF sendtoRet < 0 THEN "fail" ELSE "ok"]

(* PacketReplicator::sendToDestinationWithQueue: the fallback is taken     *)
(* when the queue has no wrapper or the direct send throws (checkOpen on a *)
(* closed wrapper); a direct send that returns false is final.             *)
sendToDestinationWithQueue(s, hasSocket, payloadLen, sendtoRet) ==
    IF ~hasSocket THEN FallbackResult(s, payloadLen, sendtoRet)
    ELSE IF s.closed_ THEN FallbackResult(s, payloadLen, sendtoRet)
    ELSE sendSinglePacketDirect(s, payloadLen)

-----------------------------------------------------------------------------
Queues == {0, 1}

VARIABLES
    sock,                 \* [Queues -> wrapper]: xdp_sockets_[q] and its rings
    w,                    \* [Queues -> worker]: locals of processPacketsForQueue(q)
    destinations_,        \* the registry (std::set<Destination>)
    destinations_mutex_,  \* "free" or the holder
    ctl,                  \* control thread: "idle", or "arp" inside addDestination
    stats,                \* packets_received_, packets_sent_ and the per-queue counters
    delivered,            \* [Queues -> Nat]: frames the kernel has put on the RX ring
    budget,               \* frames or control messages that may still arrive in this run
    hist,                 \* [Queues -> record]: history of the wrapper, for the properties
    apiCalls,             \* number of wrapper calls made by the API driver
    regR, regOps, regHist, \* registry laws: start state, operations applied, states after each
    replies,              \* control thread: the reply datagram to each message received
    life,                 \* process lifecycle: flags, threads, classifier program and its map
    call                  \* a function applied on its own: its arguments and its result

vars == <<sock, w, destinations_, destinations_mutex_, ctl, stats, delivered, budget, hist,
          apiCalls, regR, regOps, regHist, replies, life, call>>

NoSend == [reserve |-> -1, fallback |-> "none", sent |-> FALSE, made |-> FALSE]

NoTag == [seq |-> 0]

(* Worker locals.  attempts, replicated, regAtSnapshot, subCount, sentBase *)
(* and lastSend record what the current packet's fan-out did.              *)
IdleWorker ==
    [pc |-> "receive", batch |-> <<>>, i |-> 0, snapshot |-> <<>>, j |-> 0,
     sent_count |-> 0, attempts |-> <<>>, replicated |-> FALSE, regAtSnapshot |-> <<>>,
     subCount |-> 0, sentBase |-> 0, lastSend |-> NoSend]

(* History of a wrapper: the packet and destination of the last descriptor *)
(* submitted, whether a frame was handed out and written while in flight,  *)
(* and the totals of descriptors submitted and completion entries released *)
(* by the API driver.                                                      *)
NoHistory ==
    [lastTag |-> NoTag, busyHandout |-> FALSE, submitted |-> 0, released |-> 0]

(* No function is applied on its own in the runs of the replicator. *)
NoCall == [fn |-> "none"]

ZeroStats ==
    [packets_received_ |-> 0, packets_sent_ |-> 0,
     packets_received_per_queue_ |-> [q \in Queues |-> 0],
     packets_sent_per_queue_ |-> [q \in Queues |-> 0]]

(* The process after initialize() and start(): running_ set, and for each  *)
(* queue a wrapper that is bound and registered in xsks_map under its      *)
(* queue id, the classifier program loaded, main in its wait loop, the     *)
(* worker, control and statistics threads running.  closeCalls, lastClose, *)
(* scans, xskDeletes, umemDeletes, detaches and selfJoin record what the   *)
(* close(), unloadXdpProgram and join calls did; handler is the thread the *)
(* signal handler runs on, stopper the thread inside stop().               *)
Started ==
    [running_ |-> TRUE,
     wrapper |-> [q \in Queues |-> [present |-> TRUE, xsk |-> q + 1, umem |-> q + 1,
                                    xsk_map_fd |-> 5, outstanding_tx |-> 0]],
     xsks_map |-> [q \in Queues |-> q + 1],
     exists |-> [q \in Queues |-> TRUE],
     closeCalls |-> [q \in Queues |-> 0],
     lastClose |-> [q \in Queues |->
                      [made |-> FALSE, released |-> 0, kicks |-> 0, scanned |-> FALSE,
                       xsk |-> 0, umem |-> 0, outstanding |-> 0, available |-> 0]],
     scans |-> [q \in Queues |-> 0],
     xskDeletes |-> [id \in {q + 1 : q \in Queues} |-> 0],
     umemDeletes |-> [id \in {q + 1 : q \in Queues} |-> 0],
     g_running |-> TRUE,
     xdp_prog |-> TRUE,
     detaches |-> 0,
     registered |-> [q \in Queues |-> TRUE],
     main |-> "loop",
     worker |-> [q \in Queues |-> "running"],
     control |-> "running",
     stats |-> "running",
     joinable |-> [q \in Queues |-> TRUE],
     control_joinable |-> TRUE,
     signalled |-> FALSE,
     handler |-> [kind |-> "none", q |-> 0],
     stopper |-> [kind |-> "none", q |-> 0],
     stop_pc |-> "idle",
     stop_i |-> 0,
     destroy_i |-> 0,
     selfJoin |-> FALSE,
     crashed |-> FALSE,
     needs_wakeup |-> TRUE]

InitCommon ==
    /\ sock = [q \in Queues |-> BoundSocket]
    /\ w = [q \in Queues |-> IdleWorker]
    /\ destinations_mutex_ = "free"
    /\ ctl = "idle"
    /\ stats = ZeroStats
    /\ delivered = [q \in Queues |-> 0]
    /\ hist = [q \in Queues |-> NoHistory]
    /\ apiCalls = 0
    /\ regR = <<>> /\ regOps = <<>> /\ regHist = <<>>
    /\ replies = <<>>
    /\ life = Started
    /\ call = NoCall


-----------------------------------------------------------------------------
(* The kernel side of the rings of queue q.                                *)

(* The driver takes the oldest TX descriptor; it does so only when the     *)
(* completion ring has room for its completion.                            *)
KernelConsumeTx(q) ==
    /\ sock[q].tx # <<>>
    /\ Len(sock[q].ktx) + Len(sock[q].cq) < COMP_RING_SIZE
    /\ sock' = [sock EXCEPT ![q].ktx = Append(@, Head(sock[q].tx).addr),
                            ![q].tx = Tail(@)]
    /\ UNCHANGED <<w, destinations_, destinations_mutex_, ctl, stats, delivered, budget, hist,
                   apiCalls, regR, regOps, regHist, call, replies, life>>

(* The driver posts the completion of the oldest descriptor it holds. *)
KernelComplete(q) ==
    /\ sock[q].ktx # <<>>
    /\ sock' = [sock EXCEPT ![q].cq = Append(@, Head(sock[q].ktx)),
                            ![q].ktx = Tail(@)]
    /\ UNCHANGED <<w, destinations_, destinations_mutex_, ctl, stats, delivered, budget, hist,
                   apiCalls, regR, regOps, regHist, call, replies, life>>

(* A frame redirected by the classifier lands in the oldest fill-ring      *)
(* address, which moves to the RX ring.                                    *)
KernelRx(q, f) ==
    /\ budget > 0
    /\ sock[q].fq # <<>>
    /\ Len(sock[q].rx) < RX_RING_SIZE
    /\ sock' = [sock EXCEPT ![q].rx = Append(@, [addr |-> Head(sock[q].fq), frame |-> f,
                                                 seq |-> delivered[q] + 1]),
                            ![q].fq = Tail(@)]
    /\ delivered' = [delivered EXCEPT ![q] = @ + 1]
    /\ budget' = budget - 1
    /\ UNCHANGED <<w, destinations_, destinations_mutex_, ctl, stats, hist,
                   apiCalls, regR, regOps, regHist, call, replies, life>>

-----------------------------------------------------------------------------
(* The destination registry and the control thread.                        *)

(* Variant of addDestination on a container that keeps duplicates. *)
addDestinationNoDedup(reg, ipStr, port) == SetInsertAlways(reg, Destination(ipStr, port))

(* PacketReplicator::addDestination: the registry after the insert. *)
addDestination(reg, ipStr, port) == SetInsert(reg, Destination(ipStr, port))

(* Variant of removeDestination that erases by address alone. *)
removeDestinationByIp(reg, ipStr, port) ==
    SelectSeq(reg, LAMBDA e : e.ip_address # ipStr)

(* PacketReplicator::removeDestination *)
removeDestination(reg, ipStr, port) == SetErase(reg, Destination(ipStr, port))

(* PacketReplicator::getDestinations and the copy made by replicatePacket. *)
getDestinations(reg) == reg

(* The destinations the control messages of the worker runs name. *)
CtlKeys == {<<<<10, 0, 0, 9>>, 9100>>, <<<<10, 0, 0, 10>>, 9100>>}

(* Variant of addDestination that releases the mutex after the insert,     *)
(* before triggerArpResolution.                                            *)
CtlAddUnlocksEarly(k) ==
    /\ ctl = "idle"
    /\ destinations_mutex_ = "free"
    /\ DestinationValid(formatIpAddress(k[1]))
    /\ destinations_' = addDestination(destinations_, formatIpAddress(k[1]), k[2])
    /\ ctl' = "arp"
    /\ UNCHANGED <<sock, w, destinations_mutex_, stats, delivered, budget, hist, apiCalls,
                   regR, regOps, regHist, call, replies, life>>

(* ADD: addDestination takes the mutex, inserts, and keeps the mutex while *)
(* triggerArpResolution runs.                                              *)
CtlAdd(k) ==
    /\ ctl = "idle"
    /\ destinations_mutex_ = "free"
    /\ DestinationValid(formatIpAddress(k[1]))
    /\ destinations_' = addDestination(destinations_, formatIpAddress(k[1]), k[2])
    /\ destinations_mutex_' = "control"
    /\ ctl' = "arp"
    /\ UNCHANGED <<sock, w, stats, delivered, budget, hist, apiCalls, regR, regOps, regHist, call, replies, life>>

CtlAddDone ==
    /\ ctl = "arp"
    /\ destinations_mutex_' = "free"
    /\ ctl' = "idle"
    /\ UNCHANGED <<sock, w, destinations_, stats, delivered, budget, hist, apiCalls,
                   regR, regOps, regHist, call, replies, life>>

CtlRemove(k) ==
    /\ ctl = "idle"
    /\ destinations_mutex_ = "free"
    /\ DestinationValid(formatIpAddress(k[1]))
    /\ destinations_' = removeDestination(destinations_, formatIpAddress(k[1]), k[2])
    /\ UNCHANGED <<sock, w, destinations_mutex_, ctl, stats, delivered, budget, hist, apiCalls,
                   regR, regOps, regHist, call, replies, life>>

-----------------------------------------------------------------------------
(* The worker of queue q: processPacketsForQueue.                          *)

(* The next packet of the batch, or recycleFrames after the last one. *)
NextPacket(wq) ==
    IF wq.i < Len(wq.batch)
    THEN [wq EXCEPT !.pc = "packet", !.i = @ + 1]
    ELSE [wq EXCEPT !.pc = "recycle"]

(* Variant in which every worker receives on the wrapper of queue 0. *)
RxQueueZero(q) == 0

(* The wrapper the loop receives on: xdp_sockets_[queueId]. *)
RxQueue(q) == q

(* The top of the loop: running_ is read, then receive(). *)
WorkerReceive(q) ==
    /\ w[q].pc = "receive"
    /\ life.running_
    /\ life.worker[q] = "running"
    /\ LET r == receive(sock[RxQueue(q)], RX_BATCH)
       IN  /\ sock' = [sock EXCEPT ![RxQueue(q)] = r.s]
           /\ w' = [w EXCEPT ![q] =
                       IF r.batch # <<>>
                       THEN [IdleWorker EXCEPT !.pc = "packet", !.batch = r.batch, !.i = 1]
                       ELSE IdleWorker]
    /\ UNCHANGED <<destinations_, destinations_mutex_, ctl, stats, delivered, budget, hist,
                   apiCalls, regR, regOps, regHist, call, replies, life>>

(* Variant in which the loop iterates the registry itself. *)
CurrentLive(q) == destinations_

(* The destinations the fan-out loop of replicatePacket iterates. *)
current_destinations(q) == w[q].snapshot

(* One packet up to the fan-out: the counters, extractUdpPayload and the   *)
(* copy of the registry taken under the mutex.                             *)
WorkerPacket(q) ==
    /\ w[q].pc = "packet"
    /\ LET f == w[q].batch[w[q].i].frame
           valid == extractUdpPayload(f) >= 0
           snap == getDestinations(destinations_)
           fresh == [w[q] EXCEPT !.snapshot = <<>>, !.j = 0, !.sent_count = 0,
                                 !.attempts = <<>>, !.replicated = FALSE,
                                 !.regAtSnapshot = <<>>, !.subCount = 0,
                                 !.sentBase = stats.packets_sent_per_queue_[q],
                                 !.lastSend = NoSend]
       IN  /\ valid => destinations_mutex_ = "free"
           /\ stats' = [stats EXCEPT !.packets_received_ = @ + 1,
                                     !.packets_received_per_queue_[q] = @ + 1]
           /\ w' = [w EXCEPT ![q] =
                       IF ~valid THEN NextPacket(fresh)
                       ELSE IF snap = <<>>
                       THEN NextPacket([fresh EXCEPT !.replicated = TRUE])
                       ELSE [fresh EXCEPT !.pc = "send", !.snapshot = snap, !.j = 1,
                                          !.regAtSnapshot = destinations_]]
    /\ UNCHANGED <<sock, destinations_, destinations_mutex_, ctl, delivered, budget, hist,
                   apiCalls, regR, regOps, regHist, call, replies, life>>

(* Variant in which every worker transmits on the wrapper of queue 0. *)
TxQueueZero(q) == 0

(* The wrapper sendSinglePacketDirect transmits on: xdp_sockets_[queueId]. *)
TxQueue(q) == q

(* Variant in which the loop stops at the first send that fails. *)
FanOutStopsOnFailure(wq, sent) == (~sent) \/ wq.j = Len(wq.snapshot)

(* The fan-out loop ends after the last destination of the copy. *)
FanOutDone(wq, sent) == wq.j = Len(wq.snapshot)

(* One destination of the fan-out: sendToDestinationWithQueue, and after   *)
(* the last one the return to processPacketsForQueue.                      *)
WorkerSend(q) ==
    /\ w[q].pc = "send"
    /\ LET wq == w[q]
           dest == current_destinations(q)[wq.j]
           pkt == wq.batch[wq.i]
           payload_len == extractUdpPayload(pkt.frame)
           t == TxQueue(q)
       IN  \E sendtoRet \in {-1, payload_len} :
             LET r == sendToDestinationWithQueue(sock[t], q \in Queues, payload_len, sendtoRet)
                 cnt == wq.sent_count + (IF r.sent THEN 1 ELSE 0)
                 done == FanOutDone(wq, r.sent)
                 enq == Len(r.s.tx) - Len(sock[t].tx)
                 w1 == [wq EXCEPT !.sent_count = cnt,
                                  !.attempts = Append(@, [dest |-> dest, sent |-> r.sent]),
                                  !.j = @ + 1,
                                  !.replicated = done,
                                  !.subCount = @ + enq,
                                  !.lastSend = [reserve |-> r.reserve,
                                                fallback |-> r.fallback,
                                                sent |-> r.sent, made |-> TRUE]]
             IN  /\ sock' = [sock EXCEPT ![t] = r.s]
                 /\ hist' = [hist EXCEPT
                        ![t].lastTag = IF enq > 0
                                       THEN [seq |-> pkt.seq, dest |-> dest, queue |-> q]
                                       ELSE @,
                        ![t].busyHandout = @ \/ (r.wrote /\ r.busy)]
                 /\ stats' = [stats EXCEPT
                        !.packets_sent_ = @ + (IF r.sent THEN 1 ELSE 0),
                        !.packets_sent_per_queue_[q] = @ + (IF done THEN cnt ELSE 0)]
                 /\ w' = [w EXCEPT ![q] = IF done THEN NextPacket(w1) ELSE w1]
    /\ UNCHANGED <<destinations_, destinations_mutex_, ctl, delivered, budget,
                   apiCalls, regR, regOps, regHist, call, replies, life>>

WorkerRecycle(q) ==
    /\ w[q].pc = "recycle"
    /\ sock' = [sock EXCEPT ![q] = recycleFrames(@)]
    /\ w' = [w EXCEPT ![q] = IdleWorker]
    /\ UNCHANGED <<destinations_, destinations_mutex_, ctl, stats, delivered, budget, hist,
                   apiCalls, regR, regOps, regHist, call, replies, life>>

(* The copy of the registry throws (std::bad_alloc): the catch block of    *)
(* processPacketsForQueue ends the iteration without recycleFrames.        *)
WorkerThrows(q) ==
    /\ w[q].pc = "packet"
    /\ extractUdpPayload(w[q].batch[w[q].i].frame) >= 0
    /\ destinations_mutex_ = "free"
    /\ stats' = [stats EXCEPT !.packets_received_ = @ + 1,
                              !.packets_received_per_queue_[q] = @ + 1]
    /\ w' = [w EXCEPT ![q] = IdleWorker]
    /\ UNCHANGED <<sock, destinations_, destinations_mutex_, ctl, delivered, budget, hist,
                   apiCalls, regR, regOps, regHist, call, replies, life>>

-----------------------------------------------------------------------------
(* The running replicator.                                                 *)

(* The registry holding the destinations of the keys S. *)
RECURSIVE RegistryOf(_)
RegistryOf(S) ==
    IF S = {} THEN <<>>
    ELSE LET k == CHOOSE x \in S : TRUE
         IN  addDestination(RegistryOf(S \ {k}), formatIpAddress(k[1]), k[2])

CtlRegistries == {RegistryOf(S) : S \in SUBSET CtlKeys}

Kernel ==
    \E q \in Queues :
        \/ KernelConsumeTx(q)
        \/ KernelComplete(q)
        \/ \E f \in PacketKinds : KernelRx(q, f)

Worker ==
    \E q \in Queues :
        \/ WorkerReceive(q)
        \/ WorkerPacket(q)
        \/ WorkerSend(q)
        \/ WorkerRecycle(q)

Control ==
    \/ \E k \in CtlKeys : CtlAdd(k)
    \/ CtlAddDone
    \/ \E k \in CtlKeys : CtlRemove(k)

(* Workers and kernel, the registry as earlier control messages left it. *)
Init ==
    /\ InitCommon
    /\ destinations_ \in CtlRegistries
    /\ budget = MaxPackets

Next == Kernel \/ Worker

Spec == Init /\ [][Next]_vars

(* The same with an iteration that may end by an exception. *)
NextThrow == Kernel \/ Worker \/ \E q \in Queues : WorkerThrows(q)

SpecThrow == Init /\ [][NextThrow]_vars

(* Workers, kernel and the control thread, from the state after start(). *)
InitCtl ==
    /\ InitCommon
    /\ destinations_ = <<>>
    /\ budget = MaxPacketsCtl

NextCtl == Kernel \/ Worker \/ Control

SpecCtl == InitCtl /\ [][NextCtl]_vars


-----------------------------------------------------------------------------
(* The wrapper driven through its public calls, in any order, with the     *)
(* kernel's TX side: pollTxCompletions, the direct send sequence           *)
(* (reserveTxRing, setTxDescriptor, submitTxRing) and sendBatch.           *)

(* History after a call that took the wrapper from s to s2. *)
RecordApi(h, s, s2, busy) ==
    [h EXCEPT !.submitted = @ + (Len(s2.tx) - Len(s.tx)),
              !.released = @ + (Len(s.cq) - Len(s2.cq)),
              !.busyHandout = @ \/ busy]

ApiPoll(q) ==
    /\ apiCalls < MaxApiCalls
    /\ ~sock[q].closed_
    /\ sock' = [sock EXCEPT ![q] = pollTxCompletions(@)]
    /\ hist' = [hist EXCEPT ![q] = RecordApi(@, sock[q], sock'[q], FALSE)]
    /\ apiCalls' = apiCalls + 1
    /\ UNCHANGED <<w, destinations_, destinations_mutex_, ctl, stats, delivered, budget,
                   regR, regOps, regHist, call, replies, life>>

ApiDirectSend(q) ==
    /\ apiCalls < MaxApiCalls
    /\ ~sock[q].closed_
    /\ LET r == sendSinglePacketDirect(sock[q], 5)
       IN  /\ sock' = [sock EXCEPT ![q] = r.s]
           /\ hist' = [hist EXCEPT ![q] = RecordApi(@, sock[q], r.s, r.wrote /\ r.busy)]
    /\ apiCalls' = apiCalls + 1
    /\ UNCHANGED <<w, destinations_, destinations_mutex_, ctl, stats, delivered, budget,
                   regR, regOps, regHist, call, replies, life>>

(* The caller takes n TX frames with getNextTxFrame and passes them to     *)
(* sendBatch.                                                              *)
ApiSendBatch(q, n) ==
    /\ apiCalls < MaxApiCalls
    /\ ~sock[q].closed_
    /\ LET s == sock[q]
           descs == [i \in 1..n |->
                       [addr |-> ((s.prev_umem_tx_frame_ + (i - 1)) % TX_FRAMES) * FRAME_SIZE,
                        len |-> createUdpPacket(5, FRAME_SIZE)]]
           s1 == [s EXCEPT !.prev_umem_tx_frame_ = (@ + n) % TX_FRAMES]
           r == sendBatch(s1, descs, n)
       IN  /\ sock' = [sock EXCEPT ![q] = r.s]
           /\ hist' = [hist EXCEPT ![q] = RecordApi(@, s, r.s, FALSE)]
    /\ apiCalls' = apiCalls + 1
    /\ UNCHANGED <<w, destinations_, destinations_mutex_, ctl, stats, delivered, budget,
                   regR, regOps, regHist, call, replies, life>>

InitApi ==
    /\ InitCommon
    /\ destinations_ = <<>>
    /\ budget = 0

NextApi ==
    \/ ApiPoll(0)
    \/ ApiDirectSend(0)
    \/ \E n \in 0..(TX_BATCH_SIZE + 1) : ApiSendBatch(0, n)
    \/ KernelConsumeTx(0)
    \/ KernelComplete(0)

SpecApi == InitApi /\ [][NextApi]_vars

-----------------------------------------------------------------------------
(* Registry laws: from any registry, up to MaxRegOps addDestination and    *)
(* removeDestination calls; regHist keeps the registry after each call.    *)

AllRegistries == {RegistryOf(S) : S \in SUBSET DestKeys}

RegAdd(k) ==
    /\ Len(regOps) < MaxRegOps
    /\ DestinationValid(formatIpAddress(k[1]))
    /\ destinations_' = addDestination(destinations_, formatIpAddress(k[1]), k[2])
    /\ regOps' = Append(regOps, <<"add", k>>)
    /\ regHist' = Append(regHist, destinations_')
    /\ UNCHANGED <<sock, w, destinations_mutex_, ctl, stats, delivered, budget, hist,
                   apiCalls, regR, replies, life, call>>

RegRemove(k) ==
    /\ Len(regOps) < MaxRegOps
    /\ DestinationValid(formatIpAddress(k[1]))
    /\ destinations_' = removeDestination(destinations_, formatIpAddress(k[1]), k[2])
    /\ regOps' = Append(regOps, <<"remove", k>>)
    /\ regHist' = Append(regHist, destinations_')
    /\ UNCHANGED <<sock, w, destinations_mutex_, ctl, stats, delivered, budget, hist,
                   apiCalls, regR, replies, life, call>>

InitReg ==
    /\ sock = [q \in Queues |-> BoundSocket]
    /\ w = [q \in Queues |-> IdleWorker]
    /\ destinations_mutex_ = "free"
    /\ ctl = "idle"
    /\ stats = ZeroStats
    /\ delivered = [q \in Queues |-> 0]
    /\ hist = [q \in Queues |-> NoHistory]
    /\ apiCalls = 0
    /\ budget = 0
    /\ destinations_ \in AllRegistries
    /\ regR = destinations_
    /\ regOps = <<>>
    /\ regHist = <<>>
    /\ replies = <<>>
    /\ life = Started
    /\ call = NoCall

NextReg == \E k \in DestKeys : RegAdd(k) \/ RegRemove(k)

SpecReg == InitReg /\ [][NextReg]_vars


-----------------------------------------------------------------------------
(* The control protocol: handleControlProtocol and processControlMessage.  *)
(* A datagram is a sequence of bytes.                                      *)

CTRL_ADD_DESTINATION == 1
CTRL_REMOVE_DESTINATION == 2
CTRL_LIST_DESTINATIONS == 3
UINT8_MOD == 256

(* Messages the control thread may still receive in a run with a small     *)
(* registry and in a run that starts from a registry of about UINT8_MOD    *)
(* destinations.                                                           *)
MaxMessages == 4
MaxMessagesBig == 2

(* Variant of htons that leaves the port in little-endian host order. *)
htonsHostOrder(port) == <<port % 256, port \div 256>>

(* htons(port) as the two bytes copied into the reply. *)
htons(port) == <<port \div 256, port % 256>>

(* ntohs of the two bytes copied from the message. *)
ntohs(b) == b[1] * 256 + b[2]

(* The records of a LIST reply: 4 address bytes and 2 port bytes for each  *)
(* destination, in registry order.                                         *)
ListRecords(dests) ==
    [i \in 1..(6 * Len(dests)) |->
        LET k == ((i - 1) \div 6) + 1
            o == ((i - 1) % 6) + 1
        IN  IF o <= 4 THEN parseIpAddress(dests[k].ip_address)[o]
            ELSE htons(dests[k].port)[o - 4]]

(* Variant in which a message that is not served is answered with 0. *)
RejectMessage(reg) == [reg |-> reg, response |-> <<0>>]

(* A message that is not served: the registry as it was, empty response. *)
DropMessage(reg) == [reg |-> reg, response |-> <<>>]

(* PacketReplicator::processControlMessage: the registry afterwards and    *)
(* the response vector.                                                    *)
processControlMessage(reg, message) ==
    IF Len(message) < 1 THEN [reg |-> reg, response |-> <<>>]
    ELSE LET command == message[1]
         IN  IF command = CTRL_ADD_DESTINATION
             THEN IF Len(message) >= 7
                  THEN LET ip_str == formatIpAddress(SubSeq(message, 2, 5))
                           port_host == ntohs(SubSeq(message, 6, 7))
                       IN  IF DestinationValid(ip_str)
                           THEN [reg |-> addDestination(reg, ip_str, port_host),
                                 response |-> <<1>>]
                           ELSE [reg |-> reg, response |-> <<0>>]
                  ELSE DropMessage(reg)
             ELSE IF command = CTRL_REMOVE_DESTINATION
             THEN IF Len(message) >= 7
                  THEN LET ip_str == formatIpAddress(SubSeq(message, 2, 5))
                           port_host == ntohs(SubSeq(message, 6, 7))
                       IN  IF DestinationValid(ip_str)
                           THEN [reg |-> removeDestination(reg, ip_str, port_host),
                                 response |-> <<1>>]
                           ELSE [reg |-> reg, response |-> <<0>>]
                  ELSE DropMessage(reg)
             ELSE IF command = CTRL_LIST_DESTINATIONS
             THEN LET destinations == getDestinations(reg)
                  IN  [reg |-> reg,
                       response |-> <<Len(destinations) % UINT8_MOD>> \o
                                    ListRecords(destinations)]
             ELSE DropMessage(reg)

(* ControlClient: the ADD, REMOVE and LIST messages for a destination. *)
ClientAdd(k) == <<CTRL_ADD_DESTINATION>> \o k[1] \o <<k[2] \div 256, k[2] % 256>>

ClientRemove(k) == <<CTRL_REMOVE_DESTINATION>> \o k[1] \o <<k[2] \div 256, k[2] % 256>>

ClientList == <<CTRL_LIST_DESTINATIONS>>

(* Datagrams that are not well-formed messages: empty, unknown opcode, an  *)
(* ADD of 6 bytes, a REMOVE of 1 byte.                                     *)
MalformedMessages ==
    {<<>>, <<4>>, <<CTRL_ADD_DESTINATION, 10, 0, 0, 9, 35>>, <<CTRL_REMOVE_DESTINATION>>}

ControlMessages ==
    {ClientAdd(k) : k \in CtlKeys} \cup {ClientRemove(k) : k \in CtlKeys}
        \cup {ClientList} \cup MalformedMessages

(* The datagram m returned by recvfrom is served: a message of at least    *)
(* one byte is processed, and a non-empty response is sent back (replies   *)
(* keeps <<>> when nothing is sent).                                       *)
ServeMessage(m) ==
    /\ budget > 0
    /\ LET r == IF Len(m) > 0 THEN processControlMessage(destinations_, m)
                ELSE [reg |-> destinations_, response |-> <<>>]
       IN  /\ destinations_' = r.reg
           /\ replies' = Append(replies, r.response)
    /\ regOps' = Append(regOps, m)
    /\ regHist' = Append(regHist, destinations_')
    /\ budget' = budget - 1
    /\ UNCHANGED <<sock, w, destinations_mutex_, stats, delivered, hist, apiCalls, regR, life, call>>

(* One iteration of the loop of handleControlProtocol in which recvfrom    *)
(* returned the datagram m.                                                *)
ControlMessage(m) ==
    /\ life.running_
    /\ ctl = "idle"
    /\ ServeMessage(m)
    /\ UNCHANGED ctl

InitProto ==
    /\ InitCommon
    /\ destinations_ = <<>>
    /\ budget = MaxMessages

NextProto == \E m \in ControlMessages : ControlMessage(m)

SpecProto == InitProto /\ [][NextProto]_vars

(* Registries of UINT8_MOD - 1, UINT8_MOD and UINT8_MOD + 1 destinations,  *)
(* as that many ADD messages leave them.  The addresses are 10.0.x.y with  *)
(* x and y of three digits, so that the order of the strings, which is the *)
(* order of the std::set, is the order of the numbers.                     *)
BigRegistry(n) ==
    [i \in 1..n |->
        Destination(formatIpAddress(<<10, 0, 100 + ((i - 1) \div 156), 100 + ((i - 1) % 156)>>),
                    9100)]

BigRegistries == {BigRegistry(n) : n \in (UINT8_MOD - 1)..(UINT8_MOD + 1)}

InitProtoBig ==
    /\ sock = [q \in Queues |-> BoundSocket]
    /\ w = [q \in Queues |-> IdleWorker]
    /\ destinations_mutex_ = "free"
    /\ ctl = "idle"
    /\ stats = ZeroStats
    /\ delivered = [q \in Queues |-> 0]
    /\ hist = [q \in Queues |-> NoHistory]
    /\ apiCalls = 0
    /\ destinations_ \in BigRegistries
    /\ regR = destinations_
    /\ regOps = <<>>
    /\ regHist = <<>>
    /\ replies = <<>>
    /\ life = Started
    /\ call = NoCall
    /\ budget = MaxMessagesBig

SpecProtoBig == InitProtoBig /\ [][NextProto]_vars

-----------------------------------------------------------------------------
(* The wrapper's lifecycle: registerXskMap, close, the destructor and move  *)
(* assignment.  A socket or UMEM handle is a positive number, 0 is nullptr; *)
(* xsks_map maps a queue id to the socket registered under it, 0 for none.  *)

RETRIES == 10

(* xsk_socket__fd and the handles of the wrapper made for queue q. *)
SocketOf(q) == q + 1

(* The xsk_socket_wrapper a constructor leaves. *)
NewWrapper == [present |-> TRUE, xsk |-> 0, umem |-> 0, xsk_map_fd |-> -1, outstanding_tx |-> 0]

(* After setupUMem and bind on queue q. *)
BoundWrapper(q) == [NewWrapper EXCEPT !.xsk = SocketOf(q), !.umem = SocketOf(q)]

(* wrapper_ of a moved-from object. *)
NullWrapper == [NewWrapper EXCEPT !.present = FALSE]

(* bpf_map_update_elem(xsks_map_fd, &key, &sock_fd, 0) returning 0. *)
bpf_map_update_elem(map, key, value) == [map EXCEPT ![key] = value]

(* AFXDPSocket::registerXskMap that returns 0: the map fd is stored and    *)
(* the socket entered under the queue id.                                  *)
registerXskMap(wr, map, queueId) ==
    [wr |-> [wr EXCEPT !.xsk_map_fd = 5],
     map |-> bpf_map_update_elem(map, queueId, wr.xsk)]

(* Variant of xsk_socket__delete that leaves the maps as they are. *)
xsk_socket__keep(map, xsk) == map

(* xsk_socket__delete: the kernel releases the socket, which takes it out  *)
(* of every map that holds it.                                             *)
xsk_socket__delete(map, xsk) == [k \in DOMAIN map |-> IF map[k] = xsk THEN 0 ELSE map[k]]

(* The rings of a deleted socket are unmapped. *)
Unmapped(s) == [s EXCEPT !.tx = <<>>, !.ktx = <<>>, !.cq = <<>>, !.fq = <<>>, !.rx = <<>>]

(* The drain loop of close(): up to retries rounds of peek and release on  *)
(* the completion ring, a kick when the TX ring needs a wakeup, a sleep.    *)
(* progress: the driver completes what it holds during the sleep.          *)
RECURSIVE DrainTx(_, _, _, _, _)
DrainTx(s, outstanding_tx, retries, env, acc) ==
    IF outstanding_tx = 0 \/ retries = 0
    THEN [s |-> s, outstanding_tx |-> outstanding_tx, released |-> acc.released,
          kicks |-> acc.kicks]
    ELSE LET completed == xsk_ring_cons__peek(Len(s.cq), outstanding_tx)
             s1 == [s EXCEPT !.cq = SubSeq(@, completed + 1, Len(@))]
             left == outstanding_tx - completed
             s2 == IF left > 0 /\ env.progress
                   THEN [s1 EXCEPT !.cq = @ \o s1.ktx \o [i \in 1..Len(s1.tx) |-> s1.tx[i].addr],
                                   !.ktx = <<>>, !.tx = <<>>]
                   ELSE s1
         IN  DrainTx(s2, left, retries - 1, env,
                     [released |-> acc.released + completed,
                      kicks |-> acc.kicks + (IF left > 0 /\ env.wake THEN 1 ELSE 0)])

(* Variant in which close() does not test closed_. *)
NeverClosed(s) == FALSE

(* closed_.exchange(true) returned true: an earlier close() ran. *)
AlreadyClosed(s) == s.closed_

(* What a close() call did: ring entries released, kicks, whether the map  *)
(* was scanned, the socket and the UMEM deleted (0: none), and             *)
(* outstanding_tx_ and the completions available when it was called.       *)
NoClose ==
    [made |-> FALSE, released |-> 0, kicks |-> 0, scanned |-> FALSE, xsk |-> 0, umem |-> 0,
     outstanding |-> 0, available |-> 0]

(* AFXDPSocket::close.  env.lookup: bpf_map_lookup_elem on the map returns *)
(* the entry (it fails on kernels that do not support the lookup of an     *)
(* XSKMAP from user space, and when the map fd was closed).                *)
close(s, wr, map, env) ==
    IF AlreadyClosed(s)
    THEN [s |-> s, wr |-> wr, map |-> map, did |-> NoClose]
    ELSE LET s0 == [s EXCEPT !.closed_ = TRUE]
             drain == wr.present /\ wr.xsk # 0 /\ wr.outstanding_tx > 0
             d == IF drain
                  THEN DrainTx(s0, wr.outstanding_tx, RETRIES, env, [released |-> 0, kicks |-> 0])
                  ELSE [s |-> s0, outstanding_tx |-> wr.outstanding_tx, released |-> 0,
                        kicks |-> 0]
             scan == wr.present /\ wr.xsk_map_fd >= 0
             map1 == IF scan /\ env.lookup /\ wr.xsk # 0
                     THEN [k \in DOMAIN map |-> IF map[k] = wr.xsk THEN 0 ELSE map[k]]
                     ELSE map
             del == wr.present /\ wr.xsk # 0
             udel == wr.present /\ wr.umem # 0
         IN  [s |-> IF del THEN Unmapped(d.s) ELSE d.s,
              wr |-> IF wr.present
                     THEN [wr EXCEPT !.xsk = 0, !.umem = 0, !.outstanding_tx = d.outstanding_tx]
                     ELSE wr,
              map |-> IF del THEN xsk_socket__delete(map1, wr.xsk) ELSE map1,
              did |-> [made |-> TRUE, released |-> d.released, kicks |-> d.kicks,
                       scanned |-> scan,
                       xsk |-> IF del THEN wr.xsk ELSE 0,
                       umem |-> IF udel THEN wr.umem ELSE 0,
                       outstanding |-> s.outstanding_tx_, available |-> Len(s.cq)]]

(* The outcomes of what close() asks of the kernel and the driver. *)
CloseEnv == [lookup : BOOLEAN, progress : BOOLEAN, wake : BOOLEAN]

(* The lifecycle state after a close() call on the object q that returned r. *)
AfterClose(l, q, r) ==
    [l EXCEPT !.wrapper[q] = r.wr,
              !.xsks_map = r.map,
              !.closeCalls[q] = @ + 1,
              !.lastClose[q] = r.did,
              !.scans[q] = @ + (IF r.did.scanned THEN 1 ELSE 0),
              !.xskDeletes = [id \in DOMAIN @ |-> @[id] + (IF r.did.xsk = id THEN 1 ELSE 0)],
              !.umemDeletes = [id \in DOMAIN @ |-> @[id] + (IF r.did.umem = id THEN 1 ELSE 0)]]

(* close() called on the object q. *)
WrapperClose(q) ==
    /\ apiCalls < MaxApiCalls
    /\ life.exists[q]
    /\ \E env \in CloseEnv :
          LET r == close(sock[q], life.wrapper[q], life.xsks_map, env)
          IN  /\ sock' = [sock EXCEPT ![q] = r.s]
              /\ life' = AfterClose(life, q, r)
    /\ apiCalls' = apiCalls + 1
    /\ UNCHANGED <<w, destinations_, destinations_mutex_, ctl, stats, delivered, budget, hist,
                   regR, regOps, regHist, call, replies>>

(* ~AFXDPSocket on the object q: close(), then the UMEM buffer is freed. *)
WrapperDestroy(q) ==
    /\ apiCalls < MaxApiCalls
    /\ life.exists[q]
    /\ \E env \in CloseEnv :
          LET r == close(sock[q], life.wrapper[q], life.xsks_map, env)
          IN  /\ sock' = [sock EXCEPT ![q] = r.s]
              /\ life' = [AfterClose(life, q, r) EXCEPT !.exists[q] = FALSE]
    /\ apiCalls' = apiCalls + 1
    /\ UNCHANGED <<w, destinations_, destinations_mutex_, ctl, stats, delivered, budget, hist,
                   regR, regOps, regHist, call, replies>>

(* a = std::move(b): close() on a, then a takes the wrapper and the        *)
(* members of b, and b is left closed with no wrapper.                     *)
WrapperMoveAssign(a, b) ==
    /\ apiCalls < MaxApiCalls
    /\ a # b
    /\ life.exists[a] /\ life.exists[b]
    /\ \E env \in CloseEnv :
          LET r == close(sock[a], life.wrapper[a], life.xsks_map, env)
          IN  /\ sock' = [sock EXCEPT ![a] = sock[b],
                                      ![b] = [Unmapped(sock[b]) EXCEPT
                                                 !.closed_ = TRUE,
                                                 !.pending_recycle_addrs_ = <<>>]]
              /\ life' = [AfterClose(life, a, r) EXCEPT !.wrapper[a] = life.wrapper[b],
                                                        !.wrapper[b] = NullWrapper]
    /\ apiCalls' = apiCalls + 1
    /\ UNCHANGED <<w, destinations_, destinations_mutex_, ctl, stats, delivered, budget, hist,
                   regR, regOps, regHist, call, replies>>

InitClose ==
    /\ InitCommon
    /\ destinations_ = <<>>
    /\ budget = 0

NextClose ==
    \/ ApiDirectSend(0)
    \/ ApiSendBatch(0, TX_BATCH_SIZE)
    \/ KernelConsumeTx(0)
    \/ KernelComplete(0)
    \/ \E q \in Queues : WrapperClose(q)
    \/ \E q \in Queues : WrapperDestroy(q)
    \/ \E a, b \in Queues : WrapperMoveAssign(a, b)

SpecClose == InitClose /\ [][NextClose]_vars

-----------------------------------------------------------------------------
(* The process: main(), the signal handler, PacketReplicator::initialize,  *)
(* start, stop and the destruction of g_replicator at exit.                *)

dataVars == <<w, destinations_, destinations_mutex_, ctl, stats, delivered, budget, hist,
              apiCalls, regR, regOps, regHist, replies, call>>

dataVarsNoCall == <<w, destinations_, destinations_mutex_, ctl, stats, delivered, budget, hist,
                    apiCalls, regR, regOps, regHist, replies>>

NoThread == [kind |-> "none", q |-> 0]

MainThread == [kind |-> "main", q |-> 0]

StatsThread == [kind |-> "stats", q |-> 0]

ControlThread == [kind |-> "control", q |-> 0]

WorkerThread(q) == [kind |-> "worker", q |-> q]

Threads == {MainThread, StatsThread, ControlThread} \cup {WorkerThread(q) : q \in Queues}

LastQueue == Cardinality(Queues) - 1

(* g_replicator after make_unique<PacketReplicator>: nothing loaded, no    *)
(* wrapper, no thread but main.                                            *)
Constructed ==
    [Started EXCEPT !.running_ = FALSE,
                    !.wrapper = [q \in Queues |-> NullWrapper],
                    !.xsks_map = [q \in Queues |-> 0],
                    !.exists = [q \in Queues |-> FALSE],
                    !.xdp_prog = FALSE,
                    !.registered = [q \in Queues |-> FALSE],
                    !.main = "constructed",
                    !.worker = [q \in Queues |-> "none"],
                    !.control = "none",
                    !.stats = "none",
                    !.joinable = [q \in Queues |-> FALSE],
                    !.control_joinable = FALSE]

(* The thread t is executing (it exists and has not returned). *)
Live(l, t) ==
    IF t.kind = "main" THEN l.main \notin {"destroy_sockets", "exited"}
    ELSE IF t.kind = "stats" THEN l.stats = "running"
    ELSE IF t.kind = "control" THEN l.control = "running"
    ELSE l.worker[t.q] = "running"

(* The thread t is inside stop(), so its own code does not advance. *)
InStop(l, t) == l.stopper = t

(* How initialize() ends: it returns, or loadXdpProgram, bind or           *)
(* registerXskMap on the queue at throws.                                  *)
InitOutcomes ==
    {[fail |-> "none", at |-> 0], [fail |-> "load", at |-> 0]}
        \cup {[fail |-> f, at |-> q] : f \in {"bind", "register"}, q \in Queues}

(* PacketReplicator::initialize, called from main. *)
MainInitialize(o) ==
    /\ ~life.crashed
    /\ life.main = "constructed"
    /\ LET made(q) == o.fail # "load" /\ (o.fail = "none" \/ q <= o.at)
           done(q) == o.fail # "load" /\ (o.fail = "none" \/ q < o.at)
           reg(q) == registerXskMap(BoundWrapper(q), life.xsks_map, q)
       IN  life' = [life EXCEPT
               !.xdp_prog = (o.fail # "load"),
               !.exists = [q \in Queues |-> made(q)],
               !.wrapper = [q \in Queues |->
                               IF done(q) THEN reg(q).wr
                               ELSE IF ~made(q) THEN NullWrapper
                               ELSE IF o.fail = "bind"
                               THEN [NewWrapper EXCEPT !.umem = SocketOf(q)]
                               ELSE [BoundWrapper(q) EXCEPT !.xsk_map_fd = 5]],
               !.xsks_map = [q \in Queues |-> IF done(q) THEN reg(q).map[q] ELSE 0],
               !.registered = [q \in Queues |-> done(q)],
               !.main = IF o.fail = "none" THEN "initialized" ELSE "failed"]
    /\ UNCHANGED <<sock, dataVars>>

(* PacketReplicator::start and the start of the statistics thread. *)
MainStart ==
    /\ ~life.crashed
    /\ life.main = "initialized"
    /\ life.handler # MainThread
    /\ life' = [life EXCEPT !.running_ = TRUE,
                            !.worker = [q \in Queues |-> "running"],
                            !.joinable = [q \in Queues |-> TRUE],
                            !.control = "running",
                            !.control_joinable = TRUE,
                            !.stats = "running",
                            !.main = "loop"]
    /\ UNCHANGED <<sock, dataVars>>

(* The wait loop of main ends: g_running is false, or isRunning() is. *)
MainLoopExit ==
    /\ ~life.crashed
    /\ life.main = "loop"
    /\ ~InStop(life, MainThread)
    /\ ~life.g_running \/ ~life.running_
    /\ life' = [life EXCEPT !.g_running = FALSE, !.main = "stop"]
    /\ UNCHANGED <<sock, dataVars>>

(* stop() entered by the thread t: running_.exchange(false). *)
EnterStop(l, t, fromHandler) ==
    IF l.running_
    THEN [l EXCEPT !.running_ = FALSE, !.stopper = t, !.stop_pc = "join_workers",
                   !.stop_i = 0, !.handler = IF fromHandler THEN t ELSE @]
    ELSE l

(* g_replicator->stop() in main, after the loop. *)
MainStop ==
    /\ ~life.crashed
    /\ life.main = "stop"
    /\ ~InStop(life, MainThread)
    /\ LET l == EnterStop(life, MainThread, FALSE)
       IN  life' = [l EXCEPT !.main = IF l.stopper = MainThread THEN "stopping"
                                      ELSE "join_stats"]
    /\ UNCHANGED <<sock, dataVars>>

(* signalHandler on the thread t: g_running = false, then stop().  One      *)
(* signal is delivered, at any moment between the construction of the      *)
(* replicator and the return of main.                                      *)
SignalDeliver(t) ==
    /\ ~life.crashed
    /\ ~life.signalled
    /\ Live(life, t)
    /\ life.main \notin {"return", "failed"}
    /\ life' = EnterStop([life EXCEPT !.signalled = TRUE, !.g_running = FALSE], t, TRUE)
    /\ UNCHANGED <<sock, dataVars>>

(* stop(): thread->join() on the next worker thread.  The join returns     *)
(* when that thread has returned.  When the caller is that thread itself   *)
(* join throws std::system_error out of the signal handler: the catch      *)
(* block of the worker loop takes it, or the process is terminated.        *)
StopJoinWorker ==
    /\ ~life.crashed
    /\ life.stop_pc = "join_workers"
    /\ LET q == life.stop_i
           next == [life EXCEPT !.stop_i = q + 1,
                                !.stop_pc = IF q = LastQueue THEN "join_control" ELSE @]
       IN  IF ~life.joinable[q] THEN life' = next
           ELSE IF life.stopper = WorkerThread(q)
           THEN \E caught \in BOOLEAN :
                   life' = [life EXCEPT !.selfJoin = TRUE,
                                        !.crashed = ~caught,
                                        !.stopper = NoThread,
                                        !.handler = NoThread,
                                        !.stop_pc = "idle"]
           ELSE /\ life.worker[q] = "exited"
                /\ life' = [next EXCEPT !.joinable[q] = FALSE]
    /\ UNCHANGED <<sock, dataVars>>

(* stop(): control_thread_->join() and reset().  Called on the control     *)
(* thread itself, join throws and nothing catches it.                      *)
StopJoinControl ==
    /\ ~life.crashed
    /\ life.stop_pc = "join_control"
    /\ IF ~life.control_joinable THEN life' = [life EXCEPT !.stop_pc = "unload"]
       ELSE IF life.stopper = ControlThread
       THEN life' = [life EXCEPT !.selfJoin = TRUE, !.crashed = TRUE]
       ELSE /\ life.control = "exited"
            /\ life' = [life EXCEPT !.control_joinable = FALSE, !.stop_pc = "unload"]
    /\ UNCHANGED <<sock, dataVars>>

(* AFXDPSocket::unloadXdpProgram: the program is detached and closed. *)
unloadXdpProgram(l) ==
    IF l.xdp_prog THEN [l EXCEPT !.detaches = @ + 1, !.xdp_prog = FALSE] ELSE l

(* stop(): unloadXdpProgram, and the return to the caller. *)
StopUnload ==
    /\ ~life.crashed
    /\ life.stop_pc = "unload"
    /\ life' = [unloadXdpProgram(life) EXCEPT
                   !.stop_pc = "idle",
                   !.stopper = NoThread,
                   !.handler = NoThread,
                   !.main = IF life.stopper = MainThread /\ life.handler # MainThread
                            THEN "join_stats" ELSE @]
    /\ UNCHANGED <<sock, dataVars>>

(* processPacketsForQueue returns: running_ is false at the top of the loop. *)
WorkerExit(q) ==
    /\ ~life.crashed
    /\ life.worker[q] = "running"
    /\ ~InStop(life, WorkerThread(q))
    /\ ~life.running_
    /\ w[q].pc = "receive"
    /\ life' = [life EXCEPT !.worker[q] = "exited"]
    /\ UNCHANGED <<sock, dataVars>>

(* handleControlProtocol returns: running_ is false at the top of the loop. *)
ControlExit ==
    /\ ~life.crashed
    /\ life.control = "running"
    /\ ~InStop(life, ControlThread)
    /\ ~life.running_
    /\ ctl = "idle"
    /\ life' = [life EXCEPT !.control = "exited"]
    /\ UNCHANGED <<sock, dataVars>>

(* printStatisticsLoop returns: g_running is false. *)
StatsExit ==
    /\ ~life.crashed
    /\ life.stats = "running"
    /\ ~InStop(life, StatsThread)
    /\ ~life.g_running
    /\ life' = [life EXCEPT !.stats = "exited"]
    /\ UNCHANGED <<sock, dataVars>>

(* stats_thread.join() in main. *)
MainJoinStats ==
    /\ ~life.crashed
    /\ life.main = "join_stats"
    /\ ~InStop(life, MainThread)
    /\ life.stats = "exited"
    /\ life' = [life EXCEPT !.main = "return"]
    /\ UNCHANGED <<sock, dataVars>>

(* main returns and g_replicator is destroyed: ~PacketReplicator calls     *)
(* stop(), which finds running_ false; then the members go, the thread     *)
(* objects before the wrappers.  Destroying a joinable std::thread         *)
(* terminates the process.                                                 *)
MainReturn ==
    /\ ~life.crashed
    /\ life.main \in {"return", "failed"}
    /\ ~InStop(life, MainThread)
    /\ life' = [life EXCEPT
                   !.main = "destroy_sockets",
                   !.destroy_i = 0,
                   !.crashed = life.control_joinable \/ \E q \in Queues : life.joinable[q]]
    /\ UNCHANGED <<sock, dataVars>>

(* The wrapper of the next queue is destroyed with xdp_sockets_.  The map  *)
(* fd the wrapper kept is closed once the program was unloaded.            *)
MainDestroySocket ==
    /\ ~life.crashed
    /\ life.main = "destroy_sockets"
    /\ LET q == life.destroy_i
           step(l) == [l EXCEPT !.destroy_i = q + 1,
                                !.main = IF q = LastQueue THEN "exited" ELSE @]
       IN  IF ~life.exists[q]
           THEN /\ life' = step(life)
                /\ UNCHANGED sock
           ELSE \E env \in CloseEnv :
                   /\ env.lookup => life.xdp_prog
                   /\ LET r == close(sock[q], life.wrapper[q], life.xsks_map, env)
                      IN  /\ sock' = [sock EXCEPT ![q] = r.s]
                          /\ life' = step([AfterClose(life, q, r) EXCEPT !.exists[q] = FALSE])
    /\ UNCHANGED dataVars

InitLife ==
    /\ sock = [q \in Queues |-> BoundSocket]
    /\ w = [q \in Queues |-> IdleWorker]
    /\ destinations_ = <<>>
    /\ destinations_mutex_ = "free"
    /\ ctl = "idle"
    /\ stats = ZeroStats
    /\ delivered = [q \in Queues |-> 0]
    /\ budget = 0
    /\ hist = [q \in Queues |-> NoHistory]
    /\ apiCalls = 0
    /\ regR = <<>> /\ regOps = <<>> /\ regHist = <<>>
    /\ replies = <<>>
    /\ life = Constructed
    /\ call = NoCall

NextLife ==
    \/ \E o \in InitOutcomes : MainInitialize(o)
    \/ MainStart
    \/ MainLoopExit
    \/ MainStop
    \/ \E t \in Threads : SignalDeliver(t)
    \/ StopJoinWorker
    \/ StopJoinControl
    \/ StopUnload
    \/ \E q \in Queues : WorkerExit(q)
    \/ ControlExit
    \/ StatsExit
    \/ MainJoinStats
    \/ MainReturn
    \/ MainDestroySocket

SpecLife == InitLife /\ [][NextLife]_vars

-----------------------------------------------------------------------------
(* Cancellation: the workers and the control thread at work when stop()    *)
(* clears running_.                                                        *)

(* Frames and control messages that may arrive in a run. *)
MaxCancelEvents == 2

(* The control loop reads running_ and calls recvfrom, which blocks for up *)
(* to a second.                                                            *)
ControlRecv ==
    /\ ctl = "idle"
    /\ life.control = "running"
    /\ life.running_
    /\ ctl' = "recv"
    /\ UNCHANGED <<sock, w, destinations_, destinations_mutex_, stats, delivered, budget, hist,
                   apiCalls, regR, regOps, regHist, call, replies, life>>

(* recvfrom returns the datagram m, which is served. *)
ControlServe(m) ==
    /\ ctl = "recv"
    /\ ServeMessage(m)
    /\ ctl' = "idle"

(* recvfrom times out (EAGAIN): back to the top of the loop. *)
ControlTimeout ==
    /\ ctl = "recv"
    /\ ctl' = "idle"
    /\ UNCHANGED <<sock, w, destinations_, destinations_mutex_, stats, delivered, budget, hist,
                   apiCalls, regR, regOps, regHist, call, replies, life>>

(* The driver sets or clears the need-wakeup flag of the rings. *)
KernelWakeupFlag ==
    /\ life' = [life EXCEPT !.needs_wakeup = ~@]
    /\ UNCHANGED <<sock, dataVars>>

CancelMessages == {ClientList, ClientAdd(<<<<10, 0, 0, 9>>, 9100>>)}

InitCancel ==
    /\ InitCommon
    /\ destinations_ = RegistryOf(CtlKeys)
    /\ budget = MaxCancelEvents

NextCancel ==
    \/ \E q \in Queues : KernelConsumeTx(q)
    \/ \E q \in Queues : KernelComplete(q)
    \/ KernelRx(0, HelloFrame)
    \/ KernelWakeupFlag
    \/ \E q \in Queues : WorkerReceive(q)
    \/ \E q \in Queues : WorkerPacket(q)
    \/ \E q \in Queues : WorkerSend(q)
    \/ \E q \in Queues : WorkerRecycle(q)
    \/ \E q \in Queues : WorkerExit(q)
    \/ ControlRecv
    \/ \E m \in CancelMessages : ControlServe(m)
    \/ ControlTimeout
    \/ ControlExit
    \/ SignalDeliver(MainThread)

SpecCancel == InitCancel /\ [][NextCancel]_vars

-----------------------------------------------------------------------------
(* Draining: the caller submits for a while and then only polls, while the *)
(* driver keeps taking descriptors and posting completions.  The kernel's  *)
(* steps and the polling are weakly fair; submitting is not, so it may     *)
(* stop after any number of descriptors.                                   *)

(* pollTxCompletions called again, with nothing to send. *)
PollAgain(q) ==
    /\ ~sock[q].closed_
    /\ sock' = [sock EXCEPT ![q] = pollTxCompletions(@)]
    /\ UNCHANGED <<w, destinations_, destinations_mutex_, ctl, stats, delivered, budget, hist,
                   apiCalls, regR, regOps, regHist, call, replies, life>>

NextDrain ==
    \/ ApiDirectSend(0)
    \/ \E n \in 1..TX_BATCH_SIZE : ApiSendBatch(0, n)
    \/ KernelConsumeTx(0)
    \/ KernelComplete(0)
    \/ PollAgain(0)

SpecDrain ==
    /\ InitApi
    /\ [][NextDrain]_vars
    /\ WF_vars(KernelConsumeTx(0))
    /\ WF_vars(KernelComplete(0))
    /\ WF_vars(PollAgain(0))

-----------------------------------------------------------------------------
(* All the threads of the running replicator together: the workers of both *)
(* queues, the kernel, the control thread and the statistics thread.       *)

MaxPacketsOwn == 2

(* printStatisticsLoop: printStatistics calls getStatistics, which takes   *)
(* the registry mutex and loads the counters; it writes nothing.           *)
StatsPrint ==
    /\ life.g_running
    /\ life.stats = "running"
    /\ destinations_mutex_ = "free"
    /\ UNCHANGED vars

(* The destination the control messages of this run name. *)
OwnKey == <<<<10, 0, 0, 9>>, 9100>>

(* The control thread serving ADD and REMOVE messages for OwnKey. *)
ControlOwn ==
    \/ CtlAdd(OwnKey)
    \/ CtlAddDone
    \/ CtlRemove(OwnKey)

InitOwn ==
    /\ InitCommon
    /\ destinations_ = RegistryOf(CtlKeys)
    /\ budget = MaxPacketsOwn

NextOwn == Kernel \/ Worker \/ ControlOwn \/ StatsPrint

SpecOwn == InitOwn /\ [][NextOwn]_vars

-----------------------------------------------------------------------------
(* The constructor of the wrapper applied to a frame size and a frame      *)
(* count.                                                                  *)

MaxFrameSize == 4096
PAGE_SIZE == 4096

(* a & b on non-negative ints; x & -1 = x. *)
RECURSIVE BitAnd(_, _)
BitAnd(a, b) ==
    IF b = -1 THEN a
    ELSE IF a = 0 \/ b = 0 THEN 0
    ELSE (a % 2) * (b % 2) + 2 * BitAnd(a \div 2, b \div 2)

(* AFXDPSocket::allocateAlignedBuffer: the size rounded up to the page     *)
(* size and handed to mmap, which fails for a length of 0 and whenever the *)
(* kernel has no memory to give; 0 stands for MAP_FAILED.  The sizes of    *)
(* these runs are far below the range of the int parameter.                *)
allocateAlignedBuffer(size, mmapOk) ==
    LET alignedSize == ((size + PAGE_SIZE - 1) \div PAGE_SIZE) * PAGE_SIZE
    IN  IF alignedSize <= 0 \/ ~mmapOk THEN 0 ELSE alignedSize

(* AFXDPSocket::AFXDPSocket(frameSize, frameCount, headroom): the object   *)
(* constructed, or the exception thrown.                                   *)
AFXDPSocket(frameSize, frameCount, mmapOk) ==
    IF BitAnd(frameSize, frameSize - 1) # 0
    THEN [error |-> "invalid_argument"]
    ELSE LET required_frames == TX_FRAMES + RX_FRAMES
             count == IF frameCount < required_frames THEN required_frames ELSE frameCount
             umem_buffer_size_ == frameSize * count
             buffer == allocateAlignedBuffer(umem_buffer_size_, mmapOk)
         IN  IF buffer = 0
             THEN [error |-> "runtime_error"]
             ELSE [error |-> "none", chunk_size_ |-> frameSize,
                   tx_frames_ |-> TX_FRAMES, rx_frames_ |-> RX_FRAMES,
                   umem_buffer_size_ |-> umem_buffer_size_,
                   closed_ |-> FALSE, prev_umem_tx_frame_ |-> 0,
                   cached_completions_ |-> 0, outstanding_tx_ |-> 0]

(* The frame counts of the constructor calls: less than the wrapper needs, *)
(* and the default of the header.                                          *)
FrameCounts == {0, TX_FRAMES + RX_FRAMES + 2}

CtorCalls ==
    {[fn |-> "AFXDPSocket", frameSize |-> s, frameCount |-> c, mmapOk |-> m, done |-> FALSE] :
        s \in 0..MaxFrameSize, c \in FrameCounts, m \in BOOLEAN}

(* The constructor runs on the arguments drawn. *)
Construct ==
    /\ call.fn = "AFXDPSocket"
    /\ ~call.done
    /\ call' = [fn |-> "AFXDPSocket", frameSize |-> call.frameSize,
                frameCount |-> call.frameCount, mmapOk |-> call.mmapOk, done |-> TRUE,
                result |-> AFXDPSocket(call.frameSize, call.frameCount, call.mmapOk)]
    /\ UNCHANGED <<sock, dataVarsNoCall, life>>

InitCtor ==
    /\ sock = [q \in Queues |-> BoundSocket]
    /\ w = [q \in Queues |-> IdleWorker]
    /\ destinations_ = <<>>
    /\ destinations_mutex_ = "free"
    /\ ctl = "idle"
    /\ stats = ZeroStats
    /\ delivered = [q \in Queues |-> 0]
    /\ budget = 0
    /\ hist = [q \in Queues |-> NoHistory]
    /\ apiCalls = 0
    /\ regR = <<>> /\ regOps = <<>> /\ regHist = <<>>
    /\ replies = <<>>
    /\ life = Constructed
    /\ call \in CtorCalls

NextCtor == Construct

SpecCtor == InitCtor /\ [][NextCtor]_vars

-----------------------------------------------------------------------------
(* sendSinglePacketDirect called with payloads around the largest one that *)
(* fits a frame, on the wrapper states that sends and the driver produce.  *)

MaxSends == 4

(* Payload lengths: a small one, the largest that fits, and too long ones. *)
PayloadLens == {5, FRAME_SIZE - 42, FRAME_SIZE - 41, FRAME_SIZE}

(* One call; call keeps the wrapper before it, the payload length and the  *)
(* result.                                                                 *)
DirectSendLen(q, payloadLen) ==
    /\ apiCalls < MaxSends
    /\ LET r == sendSinglePacketDirect(sock[q], payloadLen)
       IN  /\ sock' = [sock EXCEPT ![q] = r.s]
           /\ hist' = [hist EXCEPT ![q] = RecordApi(@, sock[q], r.s, r.wrote /\ r.busy)]
           /\ call' = [fn |-> "sendSinglePacketDirect", payloadLen |-> payloadLen,
                       before |-> sock[q], result |-> r]
    /\ apiCalls' = apiCalls + 1
    /\ UNCHANGED <<w, destinations_, destinations_mutex_, ctl, stats, delivered, budget,
                   regR, regOps, regHist, replies, life>>

InitLen ==
    /\ InitCommon
    /\ destinations_ = <<>>
    /\ budget = 0

NextLen ==
    \/ \E len \in PayloadLens : DirectSendLen(0, len)
    \/ KernelConsumeTx(0)
    \/ KernelComplete(0)

SpecLen == InitLen /\ [][NextLen]_vars

-----------------------------------------------------------------------------
(* Packet synthesis: createUdpPacket as the bytes it writes, called up to  *)
(* MaxSynthCalls times for the same destination, interface and payload     *)
(* while the kernel's ARP table changes.                                   *)

MaxSynthCalls == 2
UINT16_MOD == 65536
IP_ID == 12345
IP_TTL == 64
IP_VERSION_IHL == 69

BroadcastMac == <<255, 255, 255, 255, 255, 255>>
DefaultMac == <<2, 0, 0, 0, 0, 1>>
InterfaceMac == <<2, 171, 205, 0, 0, 16>>
ZeroMac == <<0, 0, 0, 0, 0, 0>>
NoMac == <<>>

(* What /proc/net/arp holds for the destination address: no line, a line   *)
(* of an unresolved entry, or a line with a MAC address.                   *)
ArpEntries == {NoMac, ZeroMac, <<2, 0, 0, 0, 0, 9>>, <<2, 0, 0, 0, 0, 10>>}

(* PacketReplicator::getDestinationMac: the MAC of the line for the        *)
(* address, or <<>> for false.                                             *)
getDestinationMac(arp) == IF arp = NoMac \/ arp = ZeroMac THEN <<>> ELSE arp

(* Variant that stops after the additions: ~sum without the folding loop. *)
SumUnfolded(sum) == sum % UINT16_MOD

(* while (sum >> 16) sum = (sum & 0xFFFF) + (sum >> 16) *)
RECURSIVE ip_checksum_fold(_)
ip_checksum_fold(sum) ==
    IF sum \div UINT16_MOD # 0
    THEN ip_checksum_fold((sum % UINT16_MOD) + (sum \div UINT16_MOD))
    ELSE sum

(* The 16-bit word the processor loads from two bytes of the header: the   *)
(* byte at the lower address is the low byte.                              *)
LoadWord(bytes, i) == bytes[2 * i - 1] + 256 * bytes[2 * i]

RECURSIVE SumWords(_, _)
SumWords(bytes, n) == IF n = 0 THEN 0 ELSE SumWords(bytes, n - 1) + LoadWord(bytes, n)

(* The IPv4 header of createUdpPacket, 20 bytes, with its checksum: check  *)
(* is zero while the 10 words are added, then ~sum is stored as a 16-bit   *)
(* word.                                                                   *)
IpHeader(saddr, daddr, payloadLen) ==
    LET zeroed == <<IP_VERSION_IHL, 0>> \o htons(IP_HLEN + UDP_HLEN + payloadLen) \o
                  htons(IP_ID) \o <<0, 0>> \o <<IP_TTL, IPPROTO_UDP>> \o <<0, 0>> \o
                  saddr \o daddr
        sum == ip_checksum_fold(SumWords(zeroed, 10))
        check == (UINT16_MOD - 1 - sum) % UINT16_MOD
    IN  [zeroed EXCEPT ![11] = check % 256, ![12] = check \div 256]

(* createUdpPacket on a payload that fits: the Ethernet, IP and UDP        *)
(* headers written and the payload copied.  The destination MAC is the one *)
(* the ARP table gives at the call, or broadcast; the source MAC and the   *)
(* source address are those of the interface, or the fallbacks.            *)
createUdpPacketBytes(destination, payload, arp, src_mac, src_ip, listen_port_) ==
    LET dst_mac == getDestinationMac(arp)
    IN  [h_dest |-> IF dst_mac # <<>> THEN dst_mac ELSE BroadcastMac,
         h_source |-> src_mac,
         h_proto |-> htons(ETH_P_IP),
         ip |-> IpHeader(src_ip, DestinationAddr(destination), payload.len),
         udp |-> htons(listen_port_) \o htons(destination.port) \o
                 htons(UDP_HLEN + payload.len) \o <<0, 0>>,
         payload |-> payload,
         len |-> createUdpPacket(payload.len, FRAME_SIZE)]

(* Addresses with octets at both ends of the byte range. *)
SynthIps == {<<a, 0, c, d>> : a \in {10, 255}, c \in {0, 255}, d \in {1, 255}}

SynthPayloads == {[id |-> 1, len |-> n] : n \in {0, 5, 227, FRAME_SIZE - 42}}

SynthCalls ==
    {[fn |-> "createUdpPacket",
      destination |-> Destination(formatIpAddress(d), 9100),
      payload |-> pl,
      src_mac |-> m,
      src_ip |-> sip,
      listen_port_ |-> 9000,
      arp |-> a,
      frames |-> <<>>] :
        d \in SynthIps, pl \in SynthPayloads, m \in {InterfaceMac, DefaultMac},
        sip \in SynthIps, a \in ArpEntries}

(* One call of createUdpPacket with the arguments drawn. *)
Synthesize ==
    /\ call.fn = "createUdpPacket"
    /\ Len(call.frames) < MaxSynthCalls
    /\ call' = [call EXCEPT !.frames =
                    Append(@, createUdpPacketBytes(call.destination, call.payload, call.arp,
                                                   call.src_mac, call.src_ip,
                                                   call.listen_port_))]
    /\ UNCHANGED <<sock, dataVarsNoCall, life>>

(* The kernel learns, replaces or drops the ARP entry of the destination. *)
ArpChange(a) ==
    /\ call.fn = "createUdpPacket"
    /\ call.arp # a
    /\ call' = [call EXCEPT !.arp = a]
    /\ UNCHANGED <<sock, dataVarsNoCall, life>>

InitSynth ==
    /\ sock = [q \in Queues |-> BoundSocket]
    /\ w = [q \in Queues |-> IdleWorker]
    /\ destinations_ = <<>>
    /\ destinations_mutex_ = "free"
    /\ ctl = "idle"
    /\ stats = ZeroStats
    /\ delivered = [q \in Queues |-> 0]
    /\ budget = 0
    /\ hist = [q \in Queues |-> NoHistory]
    /\ apiCalls = 0
    /\ regR = <<>> /\ regOps = <<>> /\ regHist = <<>>
    /\ replies = <<>>
    /\ life = Started
    /\ call \in SynthCalls

NextSynth ==
    \/ Synthesize
    \/ \E a \in ArpEntries : ArpChange(a)

SpecSynth == InitSynth /\ [][NextSynth]_vars

-----------------------------------------------------------------------------
(* The two transmit variants of the wrapper side by side: send(offset,     *)
(* length), which is sendBatch with one descriptor, and the direct         *)
(* sequence of sendSinglePacketDirect.                                     *)

(* AFXDPSocket::send *)
send(s, offset, length) == sendBatch(s, <<[addr |-> offset, len |-> length]>>, 1)

(* sendToDestinationZeroCopy: the caller takes the value of getNextTxFrame *)
(* as the offset of the frame, writes a packet of payloadLen bytes there   *)
(* and passes offset and length to send.                                   *)
SendOne(q, payloadLen) ==
    /\ apiCalls < MaxSends
    /\ ~sock[q].closed_
    /\ createUdpPacket(payloadLen, 4096) # 0
    /\ LET s == sock[q]
           tx_frame_offset == getNextTxFrame(s)
           r == send(AdvanceTxFrame(s), tx_frame_offset, createUdpPacket(payloadLen, 4096))
       IN  /\ sock' = [sock EXCEPT ![q] = r.s]
           /\ hist' = [hist EXCEPT ![q] = RecordApi(@, s, r.s, FALSE)]
           /\ call' = [fn |-> "send", payloadLen |-> payloadLen, before |-> s, result |-> r]
    /\ apiCalls' = apiCalls + 1
    /\ UNCHANGED <<w, destinations_, destinations_mutex_, ctl, stats, delivered, budget,
                   regR, regOps, regHist, replies, life>>

NextEquiv ==
    \/ SendOne(0, 5)
    \/ DirectSendLen(0, 5)
    \/ KernelConsumeTx(0)
    \/ KernelComplete(0)

SpecEquiv == InitLen /\ [][NextEquiv]_vars

-----------------------------------------------------------------------------
(* One wrapper driven through its guarded calls in any order, from the     *)
(* constructor to close(): setupUMem, bind, registerXskMap and the data    *)
(* calls, with the classifier program loaded or not.                       *)

(* The members the constructor leaves: no ring is mapped yet. *)
NewSocket == [BoundSocket EXCEPT !.fq = <<>>]

(* Variant of checkOpen that never throws. *)
checkOpenSkipped(s) == TRUE

(* AFXDPSocket::checkOpen returns (TRUE) or throws "Socket is closed". *)
checkOpen(s) == ~s.closed_

(* A call that throws what and one that returns 0. *)
Thrown(s, wr, map, what) == [s |-> s, wr |-> wr, map |-> map, result |-> what]

Returned(s, wr, map) == [s |-> s, wr |-> wr, map |-> map, result |-> "ok"]

(* AFXDPSocket::setupUMem on the wrapper of queue q; created: whether      *)
(* xsk_umem__create returned 0.                                            *)
setupUMem(s, wr, map, q, created) ==
    IF ~checkOpen(s) THEN Thrown(s, wr, map, "Socket is closed")
    ELSE IF ~created THEN Thrown(s, wr, map, "Failed to create AF_XDP UMEM")
    ELSE Returned(s, [wr EXCEPT !.umem = SocketOf(q)], map)

(* AFXDPSocket::bind; created: whether xsk_socket__create returned 0.  The *)
(* fill ring is populated with the RX frames after the socket is created.  *)
bind(s, wr, map, q, created) ==
    IF ~checkOpen(s) THEN Thrown(s, wr, map, "Socket is closed")
    ELSE IF wr.umem = 0 THEN Thrown(s, wr, map, "UMEM not configured - call setupUMem first")
    ELSE IF ~created THEN Thrown(s, wr, map, "Failed to create AF_XDP socket")
    ELSE Returned([s EXCEPT !.fq = BoundSocket.fq], [wr EXCEPT !.xsk = SocketOf(q)], map)

(* AFXDPSocket::registerXskMap with its checks; xsk_socket__fd of no       *)
(* socket is negative; updated: whether bpf_map_update_elem returned 0.    *)
registerXskMapChecked(s, wr, map, prog, q, updated) ==
    LET wr1 == [wr EXCEPT !.xsk_map_fd = 5]
    IN  IF ~checkOpen(s) THEN Thrown(s, wr, map, "Socket is closed")
        ELSE IF ~prog THEN Thrown(s, wr, map, "XDP program not loaded")
        ELSE IF wr.xsk = 0 THEN Thrown(s, wr1, map, "Invalid socket file descriptor")
        ELSE IF ~updated THEN Thrown(s, wr1, map, "Failed to update XSK map")
        ELSE LET r == registerXskMap(wr, map, q) IN Returned(s, r.wr, r.map)

(* The data calls, each behind checkOpen. *)
DataOps == {"send", "sendBatch", "pollTxCompletions", "receive", "recycleFrames"}

DataCall(s, wr, map, op) ==
    LET frame(i) == ((s.prev_umem_tx_frame_ + i) % TX_FRAMES) * FRAME_SIZE
        len == createUdpPacket(5, FRAME_SIZE)
    IN  IF ~checkOpen(s) THEN Thrown(s, wr, map, "Socket is closed")
        ELSE Returned(
               CASE op = "send" -> send(AdvanceTxFrame(s), frame(0), len).s
                 [] op = "sendBatch" ->
                      sendBatch([s EXCEPT !.prev_umem_tx_frame_ = (@ + TX_BATCH_SIZE) % TX_FRAMES],
                                [i \in 1..TX_BATCH_SIZE |-> [addr |-> frame(i - 1), len |-> len]],
                                TX_BATCH_SIZE).s
                 [] op = "pollTxCompletions" -> pollTxCompletions(s)
                 [] op = "receive" -> receive(s, RX_BATCH).s
                 [] OTHER -> recycleFrames(s),
               wr, map)

(* Every call the wrapper guards with checkOpen. *)
CheckedOps == {"setupUMem", "bind", "registerXskMap"} \cup DataOps

(* The call op on the wrapper of queue q; ok is what the kernel answers.   *)
(* setupUMem and bind are called on a wrapper without UMEM and without     *)
(* socket, the data calls on a wrapper whose rings exist.                  *)
WrapCall(q, op, ok) ==
    /\ apiCalls < MaxApiCalls
    /\ life.exists[q]
    /\ op = "setupUMem" => life.wrapper[q].umem = 0
    /\ op = "bind" => life.wrapper[q].xsk = 0
    /\ op \in DataOps => (sock[q].closed_ \/ life.wrapper[q].xsk # 0) /\ ok
    /\ LET s == sock[q]
           wr == life.wrapper[q]
           map == life.xsks_map
           r == CASE op = "setupUMem" -> setupUMem(s, wr, map, q, ok)
                  [] op = "bind" -> bind(s, wr, map, q, ok)
                  [] op = "registerXskMap" ->
                       registerXskMapChecked(s, wr, map, life.xdp_prog, q, ok)
                  [] OTHER -> DataCall(s, wr, map, op)
       IN  /\ sock' = [sock EXCEPT ![q] = r.s]
           /\ life' = [life EXCEPT !.wrapper[q] = r.wr, !.xsks_map = r.map,
                                   !.registered[q] = @ \/ (op = "registerXskMap" /\ r.result = "ok")]
           /\ call' = [fn |-> op, queue |-> q, result |-> r.result]
    /\ apiCalls' = apiCalls + 1
    /\ UNCHANGED <<w, destinations_, destinations_mutex_, ctl, stats, delivered, budget, hist,
                   regR, regOps, regHist, replies>>

(* unloadXdpProgram while the wrapper exists. *)
WrapUnload ==
    /\ life.xdp_prog
    /\ life' = unloadXdpProgram(life)
    /\ UNCHANGED <<sock, dataVars>>

(* A constructed wrapper on queue 0; loadXdpProgram has succeeded or not. *)
InitWrap ==
    /\ sock = [q \in Queues |-> NewSocket]
    /\ w = [q \in Queues |-> IdleWorker]
    /\ destinations_ = <<>>
    /\ destinations_mutex_ = "free"
    /\ ctl = "idle"
    /\ stats = ZeroStats
    /\ delivered = [q \in Queues |-> 0]
    /\ budget = MaxPacketsCtl
    /\ hist = [q \in Queues |-> NoHistory]
    /\ apiCalls = 0
    /\ regR = <<>> /\ regOps = <<>> /\ regHist = <<>>
    /\ replies = <<>>
    /\ call = NoCall
    /\ \E prog \in BOOLEAN :
          life = [Constructed EXCEPT !.xdp_prog = prog,
                                     !.exists[0] = TRUE,
                                     !.wrapper[0] = NewWrapper]

NextWrap ==
    \/ \E op \in CheckedOps, ok \in BOOLEAN : WrapCall(0, op, ok)
    \/ WrapperClose(0)
    \/ WrapUnload
    \/ KernelConsumeTx(0)
    \/ KernelComplete(0)
    \/ \E f \in PacketKinds : KernelRx(0, f)

SpecWrap == InitWrap /\ [][NextWrap]_vars

-----------------------------------------------------------------------------
(* extractUdpPayload as replicatePacket calls it, applied to frames of any *)
(* header contents.                                                        *)

MaxParseLen == 52
(* An EtherType and a protocol the worker does not take: ARP (0x0806) and  *)
(* TCP (6).                                                                *)
ETH_P_ARP == ETH_P_IP + 6
IPPROTO_TCP == IPPROTO_UDP - 11

(* Frames up to MaxParseLen bytes: IPv4 or ARP, UDP or TCP, with a short,  *)
(* a plain and an option-carrying IP header, and UDP length fields below,  *)
(* inside and beyond what such a frame can hold.                           *)
ParseFrames ==
    [len : (ETH_HLEN + IP_HLEN + UDP_HLEN - 2)..MaxParseLen,
     h_proto : {ETH_P_IP, ETH_P_ARP},
     protocol : {IPPROTO_UDP, IPPROTO_TCP},
     ihl : {4, 5, 6},
     udp_len : (UDP_HLEN - 2)..(MaxParseLen - ETH_HLEN - IP_HLEN + 2)]

(* payload_data and payload_len of replicatePacket before the call. *)
NoPayload == [offset |-> 0, len |-> 0]

(* payloadData as extractUdpPayload computes it: the offset in the frame. *)
PayloadOffset(f) == ETH_HLEN + f.ihl * 4 + UDP_HLEN

(* replicatePacket up to its first return: the payload it goes on with,    *)
(* NoPayload when extractUdpPayload returned false and it returns 0.       *)
ParseFrame ==
    /\ call.fn = "frame"
    /\ LET f == call.frame
           payload_len == extractUdpPayload(f)
       IN  call' = [fn |-> "extractUdpPayload", frame |-> f,
                    accepted |-> payload_len >= 0,
                    used |-> IF payload_len >= 0
                             THEN [offset |-> PayloadOffset(f), len |-> payload_len]
                             ELSE NoPayload]
    /\ UNCHANGED <<sock, w, destinations_, destinations_mutex_, ctl, stats, delivered, budget,
                   hist, apiCalls, regR, regOps, regHist, replies, life>>

InitParse ==
    /\ sock = [q \in Queues |-> BoundSocket]
    /\ w = [q \in Queues |-> IdleWorker]
    /\ destinations_ = <<>>
    /\ destinations_mutex_ = "free"
    /\ ctl = "idle"
    /\ stats = ZeroStats
    /\ delivered = [q \in Queues |-> 0]
    /\ budget = 0
    /\ hist = [q \in Queues |-> NoHistory]
    /\ apiCalls = 0
    /\ regR = <<>> /\ regOps = <<>> /\ regHist = <<>>
    /\ replies = <<>>
    /\ life = Started
    /\ call \in {[fn |-> "frame", frame |-> f] : f \in ParseFrames}

NextParse == ParseFrame

SpecParse == InitParse /\ [][NextParse]_vars

-----------------------------------------------------------------------------
(* loadXdpProgram and unloadXdpProgram called in any order.  In these runs *)
(* call holds, besides the last call, the statics of AFXDPSocket.cpp and   *)
(* what the kernel holds for the process:                                  *)
(*   xdp_prog         0 for NULL, ERR_PTR for the error pointer            *)
(*                    xdp_program__open_file returns, else a handle        *)
(*   opt_attach_mode  the mode passed to attach and detach                 *)
(*   held             the program handles opened and not closed            *)
(*   attached         the attachments: program, interface, mode            *)
(*   opened           the number of programs opened so far                 *)
(* and of the last call: attach, the attachment it made; detach, the       *)
(* detach it asked for; undone, the attachments its program had then.      *)

MaxProgCalls == 3

Interfaces == {"eth0", "eth1"}
XDP_MODE_NATIVE == "native"
XDP_MODE_SKB == "skb"
ERR_PTR == 0 - 1

NoAttach == [prog |-> 0, ifName |-> "", mode |-> ""]

(* What the library and the kernel answer during one call: whether         *)
(* open_file, set_xdp_frags_support and attach succeed, whether a detach   *)
(* asked in another mode than the attachment's removes it, and whether     *)
(* handing the error pointer to detach and close ends the process.         *)
ProgEnv == [open : BOOLEAN, frags : BOOLEAN, attach : BOOLEAN, removes : BOOLEAN,
            crash : BOOLEAN]

(* xdp_program__detach(prog, ifindex, mode, 0): the attachment of prog on  *)
(* that interface goes; none does when prog is not attached there.         *)
xdp_program__detach(attached, prog, ifName, mode, removes) ==
    {a \in attached : ~(a.prog = prog /\ a.ifName = ifName /\ (a.mode = mode \/ removes))}

(* if (!nativeMode) opt_attach_mode = XDP_MODE_SKB; *)
SetAttachMode(p, nativeMode) ==
    IF ~nativeMode THEN [p EXCEPT !.opt_attach_mode = XDP_MODE_SKB] ELSE p

(* if (xdp_prog != NULL) { detach; close; xdp_prog = NULL; } *)
DetachAndClose(p, ifName, env) ==
    IF p.xdp_prog = 0 THEN [p EXCEPT !.detach = NoAttach, !.undone = {}]
    ELSE IF p.xdp_prog = ERR_PTR
    THEN [p EXCEPT !.xdp_prog = 0, !.crashed = env.crash, !.detach = NoAttach, !.undone = {}]
    ELSE [p EXCEPT !.undone = {a \in p.attached : a.prog = p.xdp_prog},
                   !.attached = xdp_program__detach(@, p.xdp_prog, ifName,
                                                    p.opt_attach_mode, env.removes),
                   !.held = @ \ {p.xdp_prog},
                   !.xdp_prog = 0,
                   !.detach = [prog |-> p.xdp_prog, ifName |-> ifName,
                               mode |-> p.opt_attach_mode]]

(* xdp_program__attach answers 0: the kernel refuses a program in one mode *)
(* on an interface that has one in the other mode.                         *)
AttachSucceeds(p, ifName, env) ==
    /\ env.attach
    /\ \A a \in p.attached : a.ifName = ifName => a.mode = p.opt_attach_mode

(* AFXDPSocket::loadXdpProgram *)
loadXdpProgram(p, ifName, nativeMode, env) ==
    LET p1 == DetachAndClose(SetAttachMode(p, nativeMode), ifName, env)
        id == p.opened + 1
        p2 == [p1 EXCEPT !.xdp_prog = id, !.held = @ \cup {id}, !.opened = id]
    IN  IF p1.crashed THEN [p1 EXCEPT !.result = "crashed", !.attach = NoAttach]
        ELSE IF ~env.open
        THEN [p1 EXCEPT !.xdp_prog = ERR_PTR, !.attach = NoAttach,
                        !.result = "XDP program loading failed"]
        ELSE IF ~env.frags
        THEN [p2 EXCEPT !.attach = NoAttach, !.result = "Enable frags support failed"]
        ELSE IF ~AttachSucceeds(p2, ifName, env)
        THEN [p2 EXCEPT !.held = @ \ {id}, !.xdp_prog = 0, !.attach = NoAttach,
                        !.result = "XDP program attach failed"]
        ELSE LET a == [prog |-> id, ifName |-> ifName, mode |-> p2.opt_attach_mode]
             IN  [p2 EXCEPT !.attached = @ \cup {a}, !.attach = a, !.result = "ok"]

(* AFXDPSocket::unloadXdpProgram with its arguments. *)
unloadXdpProgramOf(p, ifName, nativeMode, env) ==
    LET p1 == DetachAndClose(SetAttachMode(p, nativeMode), ifName, env)
    IN  [p1 EXCEPT !.attach = NoAttach, !.result = IF p1.crashed THEN "crashed" ELSE "ok"]

(* The process before the first call. *)
NoProgram ==
    [fn |-> "none", ifName |-> "", nativeMode |-> TRUE, result |-> "ok",
     attach |-> NoAttach, detach |-> NoAttach, undone |-> {},
     xdp_prog |-> 0, opt_attach_mode |-> XDP_MODE_NATIVE, held |-> {}, attached |-> {},
     opened |-> 0, crashed |-> FALSE]

LoadProgram(ifName, nativeMode, env) ==
    /\ apiCalls < MaxProgCalls
    /\ ~call.crashed
    /\ call' = [loadXdpProgram(call, ifName, nativeMode, env) EXCEPT
                   !.fn = "loadXdpProgram", !.ifName = ifName, !.nativeMode = nativeMode]
    /\ apiCalls' = apiCalls + 1
    /\ UNCHANGED <<sock, w, destinations_, destinations_mutex_, ctl, stats, delivered, budget,
                   hist, regR, regOps, regHist, replies, life>>

UnloadProgram(ifName, nativeMode, env) ==
    /\ apiCalls < MaxProgCalls
    /\ ~call.crashed
    /\ call' = [unloadXdpProgramOf(call, ifName, nativeMode, env) EXCEPT
                   !.fn = "unloadXdpProgram", !.ifName = ifName, !.nativeMode = nativeMode]
    /\ apiCalls' = apiCalls + 1
    /\ UNCHANGED <<sock, w, destinations_, destinations_mutex_, ctl, stats, delivered, budget,
                   hist, regR, regOps, regHist, replies, life>>

InitProg ==
    /\ sock = [q \in Queues |-> NewSocket]
    /\ w = [q \in Queues |-> IdleWorker]
    /\ destinations_ = <<>>
    /\ destinations_mutex_ = "free"
    /\ ctl = "idle"
    /\ stats = ZeroStats
    /\ delivered = [q \in Queues |-> 0]
    /\ budget = 0
    /\ hist = [q \in Queues |-> NoHistory]
    /\ apiCalls = 0
    /\ regR = <<>> /\ regOps = <<>> /\ regHist = <<>>
    /\ replies = <<>>
    /\ life = Constructed
    /\ call = NoProgram

NextProg ==
    \/ \E i \in Interfaces, n \in BOOLEAN, env \in ProgEnv : LoadProgram(i, n, env)
    \/ \E i \in Interfaces, n \in BOOLEAN, env \in ProgEnv : UnloadProgram(i, n, env)

SpecProg == InitProg /\ [][NextProg]_vars

-----------------------------------------------------------------------------
(* Properties.                                                             *)

TxAddrs == {i * FRAME_SIZE : i \in 0..(TX_FRAMES - 1)}

RxAddrs == {(UMEM_RX_FIRST_FRAME_IX + i) * FRAME_SIZE : i \in 0..(RX_FRAMES - 1)}

(* Where TX frame addresses are while in flight: TX ring, driver,          *)
(* completion ring.                                                        *)
TxLocations(s) == [i \in 1..Len(s.tx) |-> s.tx[i].addr] \o s.ktx \o s.cq

(* Where RX frame addresses are: fill ring, RX ring, held by the worker.   *)
RxLocations(s) ==
    s.fq \o [i \in 1..Len(s.rx) |-> s.rx[i].addr] \o s.pending_recycle_addrs_

(* C1: every UMEM frame address is in exactly one place: a TX frame is     *)
(* free or in one of TX ring, driver, completion ring; an RX frame is in   *)
(* one of fill ring, RX ring, worker; and no TX frame is handed out and    *)
(* written while it is still in flight.                                    *)
FrameOwnership ==
    \A q \in Queues :
        /\ \A a \in TxAddrs : Occurrences(TxLocations(sock[q]), a) <= 1
        /\ \A a \in RxAddrs : Occurrences(RxLocations(sock[q]), a) = 1
        /\ ~hist[q].busyHandout

(* C2: outstanding_tx_ is the number of TX descriptors submitted minus the *)
(* number of completion-ring entries released, after any sequence of       *)
(* sendBatch, direct submissions and pollTxCompletions.                    *)
OutstandingIsSubmittedMinusReleased ==
    \A q \in Queues : sock[q].outstanding_tx_ = hist[q].submitted - hist[q].released

OutstandingAfterRelease ==
    /\ hist[0].submitted > hist[0].released
    /\ hist[0].released > 0
    /\ sock[0].cached_completions_ > 0

(* C3: no RX frame is lost: the RX-region frames in fill ring, RX ring and *)
(* pending-recycle list are always all RX_FRAMES of them, also when an     *)
(* iteration ends by an exception before recycleFrames.                    *)
RxFramesConserved ==
    \A q \in Queues :
        /\ Len(RxLocations(sock[q])) = RX_FRAMES
        /\ Range(RxLocations(sock[q])) = RxAddrs

(* C4: every step that enqueues TX descriptors does so only when           *)
(* outstanding_tx_, after polling the completions, is at most              *)
(* TX_FRAMES - TX_BATCH_SIZE.                                              *)
BackPressureOnEveryPath ==
    [][\A q \in Queues :
          Len(sock'[q].tx) > Len(sock[q].tx) =>
              sock'[q].outstanding_tx_ - (Len(sock'[q].tx) - Len(sock[q].tx))
                  <= TX_FRAMES - TX_BATCH_SIZE]_vars

(* C5: a send whose TX ring reservation returned 0 goes to the             *)
(* conventional socket, and counts as sent iff that sendto succeeded.      *)
RingFullFallsBack ==
    \A q \in Queues :
        (w[q].lastSend.made /\ w[q].lastSend.reserve = 0) =>
            /\ w[q].lastSend.fallback # "none"
            /\ w[q].lastSend.sent <=> w[q].lastSend.fallback = "ok"

(* C6: the fan-out of a valid packet makes exactly one attempt per entry   *)
(* of the snapshot, in order, whatever the earlier attempts returned, and  *)
(* the count it returns (added to the queue's sent counter) is the number  *)
(* of successful attempts.                                                 *)
FanOutAttemptsAll ==
    \A q \in Queues :
        /\ w[q].pc = "send" =>
              /\ w[q].j <= Len(w[q].snapshot)
              /\ Len(w[q].attempts) = w[q].j - 1
        /\ w[q].replicated =>
              /\ Len(w[q].attempts) = Len(w[q].snapshot)
              /\ \A k \in 1..Len(w[q].attempts) : w[q].attempts[k].dest = w[q].snapshot[k]
              /\ w[q].sent_count =
                     Cardinality({k \in 1..Len(w[q].attempts) : w[q].attempts[k].sent})
              /\ stats.packets_sent_per_queue_[q] = w[q].sentBase + w[q].sent_count

FanOutAfterFailure ==
    \E q \in Queues :
        /\ w[q].replicated
        /\ Len(w[q].attempts) = 2
        /\ ~w[q].attempts[1].sent
        /\ w[q].attempts[2].sent

(* Order of submissions: by packet, then by registry order. *)
TagLess(a, b) ==
    \/ a.seq < b.seq
    \/ a.seq = b.seq /\ a.seq > 0 /\ DestLess(a.dest, b.dest)

AllSent(wq) == \A k \in 1..Len(wq.attempts) : wq.attempts[k].sent

InFlightSent(q) == IF w[q].pc = "send" THEN w[q].sent_count ELSE 0

RECURSIVE SentTotal(_)
SentTotal(S) ==
    IF S = {} THEN 0
    ELSE LET q == CHOOSE x \in S : TRUE
         IN  stats.packets_sent_per_queue_[q] + InFlightSent(q) + SentTotal(S \ {q})

(* C7: a worker's TX submissions go to its own queue, follow the RX order  *)
(* of the packets and, within a packet, the registry order of the          *)
(* snapshot; a valid packet with n destinations, all accepted, makes n     *)
(* submissions and raises the sent counters by n.                          *)
SubmissionOrder ==
    /\ [](\A q \in Queues :
             /\ hist[q].lastTag.seq > 0 => hist[q].lastTag.queue = q
             /\ (w[q].replicated /\ AllSent(w[q])) =>
                   /\ w[q].subCount = Len(w[q].snapshot)
                   /\ stats.packets_sent_per_queue_[q] = w[q].sentBase + Len(w[q].snapshot)
             /\ stats.packets_sent_ = SentTotal(Queues))
    /\ [][\A q \in Queues :
             Len(sock'[q].tx) > Len(sock[q].tx) =>
                 /\ Len(sock'[q].tx) = Len(sock[q].tx) + 1
                 /\ TagLess(hist[q].lastTag, hist'[q].lastTag)]_vars

TwoSubmissionsSecondPacket ==
    /\ w[1].replicated
    /\ Len(w[1].snapshot) = 2
    /\ w[1].subCount = 2
    /\ hist[1].lastTag.seq = 2
    /\ stats.packets_sent_per_queue_[1] = 4

(* C8: the copy a worker iterates is the registry as it was when the copy  *)
(* was taken, whatever the control thread has done since, and the worker   *)
(* goes on while the control thread holds the mutex.                       *)
SnapshotStable ==
    \A q \in Queues :
        w[q].pc = "send" =>
            /\ current_destinations(q) = w[q].regAtSnapshot
            /\ \A k \in 1..Len(w[q].attempts) :
                   w[q].attempts[k].dest = w[q].regAtSnapshot[k]
            /\ ENABLED WorkerSend(q)

SnapshotOutlivesRegistry ==
    \E q \in Queues :
        /\ w[q].pc = "send"
        /\ w[q].attempts # <<>>
        /\ destinations_ # w[q].regAtSnapshot
        /\ destinations_mutex_ = "control"

InRegistry(reg, k) ==
    \E i \in 1..Len(reg) : DestEquiv(reg[i], Destination(formatIpAddress(k[1]), k[2]))

AddThenRemove(k) ==
    /\ Len(regOps) >= 2
    /\ regOps[1] = <<"add", k>>
    /\ regOps[2] = <<"remove", k>>

(* C9: addDestination(d) followed by removeDestination(d) leaves the       *)
(* registry as it was, whether or not d was in it.                         *)
AddRemoveRestores ==
    \A k \in DestKeys : AddThenRemove(k) => regHist[2] = regR

(* C9, restricted: addDestination(d) followed by removeDestination(d)      *)
(* leaves the registry as it was when d was not in it; when d was in it,   *)
(* the result is the registry without d.                                   *)
AddRemoveRestoresAbsent ==
    \A k \in DestKeys :
        AddThenRemove(k) =>
            /\ ~InRegistry(regR, k) => regHist[2] = regR
            /\ InRegistry(regR, k) =>
                   regHist[2] = removeDestination(regR, formatIpAddress(k[1]), k[2])
            /\ ~InRegistry(regHist[2], k)

AddRemoveOfAbsent ==
    \E k \in DestKeys :
        /\ AddThenRemove(k)
        /\ ~InRegistry(regR, k)
        /\ Len(regR) >= 2
        /\ regHist[1] # regR

(* C10: add(d); add(d) gives the registry of add(d), remove(d); remove(d)  *)
(* gives the registry of remove(d), and the registry never holds the same  *)
(* (address, port) twice.                                                  *)
RegistryIdempotent ==
    /\ \A i \in 1..(Len(regOps) - 1) :
           regOps[i] = regOps[i + 1] => regHist[i + 1] = regHist[i]
    /\ \A i, j \in 1..Len(destinations_) :
           (DestinationAddr(destinations_[i]) = DestinationAddr(destinations_[j])
              /\ destinations_[i].port = destinations_[j].port) => i = j
    /\ IsSortedSet(destinations_)

AddTwiceOfAbsent ==
    \E k \in DestKeys :
        /\ Len(regOps) = 2
        /\ regOps[1] = <<"add", k>>
        /\ regOps[2] = <<"add", k>>
        /\ ~InRegistry(regR, k)
        /\ regR # <<>>

-----------------------------------------------------------------------------
(* The control protocol, as a client sees it. *)

WellFormedAdd(m) == Len(m) = 7 /\ m[1] = CTRL_ADD_DESTINATION

WellFormedRemove(m) == Len(m) = 7 /\ m[1] = CTRL_REMOVE_DESTINATION

IsList(m) == Len(m) >= 1 /\ m[1] = CTRL_LIST_DESTINATIONS

(* The destination a well-formed ADD or REMOVE names: 4 address bytes and  *)
(* the port in network byte order.                                         *)
KeyOf(m) == <<SubSeq(m, 2, 5), m[6] * 256 + m[7]>>

(* The destinations added and not later removed by the first n messages. *)
RECURSIVE AddedNotRemoved(_)
AddedNotRemoved(n) ==
    IF n = 0 THEN {}
    ELSE LET m == regOps[n]
             before == AddedNotRemoved(n - 1)
         IN  IF WellFormedAdd(m) THEN before \cup {KeyOf(m)}
             ELSE IF WellFormedRemove(m) THEN before \ {KeyOf(m)}
             ELSE before

(* A reply read as {count, (ip_be, port_be) * count}: the records that the *)
(* count byte announces.                                                   *)
ReplyRecord(reply, j) ==
    <<SubSeq(reply, 6 * j - 4, 6 * j - 1), reply[6 * j] * 256 + reply[6 * j + 1]>>

WellFramed(reply) == Len(reply) >= 1 /\ Len(reply) = 1 + 6 * reply[1]

(* The registry before the i-th message. *)
RegistryBefore(i) == IF i = 1 THEN <<>> ELSE regHist[i - 1]

(* C11: after any sequence of well-formed ADD and REMOVE messages, each     *)
(* answered with exactly the one byte 1, a LIST reply is the count followed *)
(* by count records of address and port in network byte order, and the      *)
(* records are exactly the destinations added and not later removed, each   *)
(* once (for at most 255 destinations).                                     *)
ListEnumeratesRegistry ==
    \A i \in 1..Len(regOps) :
        /\ (WellFormedAdd(regOps[i]) \/ WellFormedRemove(regOps[i])) => replies[i] = <<1>>
        /\ (IsList(regOps[i]) /\ Cardinality(AddedNotRemoved(i - 1)) <= 255) =>
              LET reply == replies[i]
                  E == AddedNotRemoved(i - 1)
              IN  /\ WellFramed(reply)
                  /\ reply[1] = Cardinality(E)
                  /\ {ReplyRecord(reply, j) : j \in 1..reply[1]} = E

(* ADD d, LIST, REMOVE d, LIST has been answered [1], [1, d], [1], [0]. *)
AddListRemoveList ==
    LET d == <<<<10, 0, 0, 9>>, 9100>>
    IN  /\ regOps = <<ClientAdd(d), ClientList, ClientRemove(d), ClientList>>
        /\ replies = <<<<1>>, <<1, 10, 0, 0, 9, 35, 140>>, <<1>>, <<0>>>>

(* C12: with 256 or more destinations the LIST reply has count byte 255 and *)
(* carries exactly the first 255 destinations (1 + 6 * 255 bytes); for      *)
(* every registry size the count byte is the number of records that follow. *)
ListCapsAt255 ==
    \A i \in 1..Len(regOps) :
        IsList(regOps[i]) =>
            LET reply == replies[i]
                reg == IF i = 1 THEN regR ELSE regHist[i - 1]
                n == Min(Len(reg), 255)
            IN  /\ WellFramed(reply)
                /\ reply[1] = n
                /\ \A j \in 1..n :
                      ReplyRecord(reply, j) =
                          <<parseIpAddress(reg[j].ip_address), reg[j].port>>

(* A message that the protocol does not serve. *)
Malformed(m) ==
    \/ Len(m) = 0
    \/ /\ Len(m) >= 1
       /\ m[1] \notin {CTRL_ADD_DESTINATION, CTRL_REMOVE_DESTINATION, CTRL_LIST_DESTINATIONS}
    \/ /\ Len(m) >= 1
       /\ m[1] \in {CTRL_ADD_DESTINATION, CTRL_REMOVE_DESTINATION}
       /\ Len(m) < 7

(* C13: an empty message, a message with an opcode other than 1, 2 or 3,   *)
(* and an ADD or REMOVE shorter than 7 bytes produce no reply and leave the *)
(* registry unchanged; the control loop keeps running and answers the       *)
(* messages that follow.                                                    *)
MalformedDropped ==
    /\ \A i \in 1..Len(regOps) :
          Malformed(regOps[i]) =>
              /\ replies[i] = <<>>
              /\ regHist[i] = RegistryBefore(i)
              /\ i < Len(regOps) /\ ~Malformed(regOps[i + 1]) => replies[i + 1] # <<>>
    /\ (\E i \in 1..Len(regOps) : Malformed(regOps[i])) => life.running_

(* Every kind of malformed message has been dropped in a registry that     *)
(* holds a destination, and a LIST after them has been answered.           *)
MalformedThenList ==
    /\ Len(regOps) = 4
    /\ WellFormedAdd(regOps[1])
    /\ regOps[2] = <<CTRL_ADD_DESTINATION, 10, 0, 0, 9, 35>>
    /\ regOps[3] = <<4>>
    /\ IsList(regOps[4])
    /\ replies[2] = <<>> /\ replies[3] = <<>>
    /\ Len(replies[4]) = 7

-----------------------------------------------------------------------------
(* The wrapper's lifecycle. *)

(* C16: close() called with TX descriptors outstanding drains them: it      *)
(* releases the completion-ring entries that are available (and kicks the   *)
(* driver at most RETRIES times) before it removes the map entry and        *)
(* deletes the socket.                                                      *)
CloseDrainsTx ==
    \A q \in Queues :
        LET c == life.lastClose[q]
        IN  (c.made /\ c.outstanding > 0) =>
                /\ c.released = Min(c.available, c.outstanding)
                /\ c.kicks <= RETRIES

Rings(s) == <<s.tx, s.ktx, s.cq, s.fq, s.rx>>

(* A step in which close() ran on the object q (from a call, from the       *)
(* destructor or from move assignment) although q was closed already.       *)
CloseAgain(q) == life'.closeCalls[q] > life.closeCalls[q] /\ sock[q].closed_

(* The step moved the wrapper of an open object b into q. *)
MovedInto(q) ==
    \E b \in Queues \ {q} :
        ~sock[b].closed_ /\ sock'[b].closed_ /\ life'.wrapper[q] = life.wrapper[b]

(* C17: close() is idempotent: a close() on an object that is closed        *)
(* already (an explicit call, the destructor's, move assignment's) performs *)
(* no ring, map or socket operation, and no socket and no UMEM is ever      *)
(* deleted twice.                                                           *)
CloseIdempotent ==
    /\ [][\A q \in Queues :
             CloseAgain(q) =>
                 /\ life'.xsks_map = life.xsks_map
                 /\ life'.scans = life.scans
                 /\ life'.xskDeletes = life.xskDeletes
                 /\ life'.umemDeletes = life.umemDeletes
                 /\ ~life'.lastClose[q].made
                 /\ Rings(sock'[q]) = Rings(sock[q]) \/ MovedInto(q)]_vars
    /\ [](\A id \in DOMAIN life.xskDeletes :
             life.xskDeletes[id] <= 1 /\ life.umemDeletes[id] <= 1)

(* An object was closed by a call, closed again, and then destroyed: three  *)
(* close() runs, its socket and UMEM deleted once.                          *)
ClosedTwiceThenDestroyed ==
    \E q \in Queues :
        /\ life.closeCalls[q] >= 3
        /\ ~life.exists[q]
        /\ life.xskDeletes[SocketOf(q)] = 1
        /\ life.umemDeletes[SocketOf(q)] = 1
        /\ life.scans[q] = 1

(* C20: once the worker has stopped submitting and the kernel has posted a  *)
(* completion for every submitted descriptor, repeated pollTxCompletions    *)
(* calls bring outstanding_tx_ back to 0 and it stays there, whatever the   *)
(* number of descriptors submitted.                                         *)
OutstandingReturnsToZero == <>[](sock[0].outstanding_tx_ = 0)

-----------------------------------------------------------------------------
(* The process lifecycle. *)

(* C14: once registerXskMap(queue_id) has succeeded on a wrapper and until  *)
(* the wrapper is closed, xsks_map[queue_id] is the wrapper's socket; once  *)
(* close() has returned, no key of xsks_map holds that socket - in every    *)
(* run of initialize, start, stop and the destruction at exit.              *)
XskMapFollowsSocket ==
    \A q \in Queues :
        /\ (life.registered[q] /\ life.exists[q] /\ ~sock[q].closed_) =>
               /\ life.wrapper[q].xsk = SocketOf(q)
               /\ life.xsks_map[q] = SocketOf(q)
        /\ life.closeCalls[q] > 0 =>
               \A k \in DOMAIN life.xsks_map : life.xsks_map[k] # SocketOf(q)

(* The process has run to its end: every wrapper was registered, the        *)
(* program was unloaded by stop(), and every wrapper was closed at exit.    *)
RegisteredThenClosed ==
    /\ life.main = "exited"
    /\ ~life.crashed
    /\ life.detaches = 1
    /\ \A q \in Queues :
          /\ life.registered[q]
          /\ life.closeCalls[q] = 1
          /\ life.lastClose[q].xsk = SocketOf(q)
          /\ life.xsks_map[q] = 0

(* C15: the classifier program is detached at most once in a run, and only  *)
(* when close() has returned on every wrapper: no wrapper is still open     *)
(* (and so closed later) once the program was detached.                     *)
DetachAfterWrappersClosed ==
    /\ life.detaches <= 1
    /\ life.detaches > 0 => \A q \in Queues : life.exists[q] => sock[q].closed_

(* C18: after a signal, on whichever thread the handler runs and whatever   *)
(* main does meanwhile, no thread joins itself, no joinable thread object   *)
(* is destroyed and the process is not terminated abnormally.               *)
ShutdownJoinsCleanly == ~life.selfJoin /\ ~life.crashed

(* The step issues a system call: the TX poke of requestDriverPoll after a  *)
(* reserve, the fallback sendto, the fill-ring recvfrom of recycleFrames,   *)
(* or the control thread's recvfrom or sendto.                              *)
WorkerSyscall(q) ==
    \/ /\ w[q].pc = "send" /\ w'[q] # w[q]
       /\ \/ w'[q].lastSend.reserve \in {0, 1} /\ life.needs_wakeup
          \/ w'[q].lastSend.fallback # "none"
    \/ /\ w[q].pc = "recycle" /\ w'[q].pc = "receive"
       /\ Len(sock'[q].fq) > Len(sock[q].fq)
       /\ life.needs_wakeup

ControlSyscall ==
    \/ ctl = "idle" /\ ctl' = "recv"
    \/ Len(replies') > Len(replies) /\ replies'[Len(replies')] # <<>>

(* C19: once running_ is cleared, no worker and not the control thread      *)
(* issues another system call, also when the flag is cleared in the middle  *)
(* of a received batch or of a fan-out.                                     *)
NoSyscallAfterStop ==
    [][~life.running_ => ~(ControlSyscall \/ \E q \in Queues : WorkerSyscall(q))]_vars


(* The steps of the driver on the rings of queue q. *)
KernelStep(q) ==
    \/ KernelConsumeTx(q)
    \/ KernelComplete(q)
    \/ \E f \in PacketKinds : KernelRx(q, f)

(* The steps of the worker of queue q. *)
WorkerStep(q) ==
    \/ WorkerReceive(q)
    \/ WorkerPacket(q)
    \/ WorkerSend(q)
    \/ WorkerRecycle(q)

(* C21: while the workers run, every step that changes the wrapper of      *)
(* queue q (its rings, TX cursor, counters or recycle list) and is not a   *)
(* step of the driver is a step of the worker of queue q: no other worker  *)
(* and no control, statistics or main thread step touches it.              *)
WrapperOwnedByItsWorker ==
    [][\A q \in Queues :
          sock'[q] # sock[q] => KernelStep(q) \/ WorkerStep(q)]_vars

(* Both workers are in the middle of a fan-out, each with a descriptor on  *)
(* its own TX ring, while the control thread holds the registry mutex.     *)
BothWorkersSending ==
    /\ \A q \in Queues : w[q].pc = "send" /\ w[q].subCount = 1
    /\ \A q \in Queues : hist[q].lastTag.queue = q /\ hist[q].lastTag.seq = 1
    /\ ctl = "arp"

(* The counters a received frame raises whether it parses or not. *)
ReceivedCounters == {"packets_received_", "packets_received_per_queue_"}

(* The worker of queue q handles a frame that extractUdpPayload rejects. *)
RejectsFrame(q) ==
    /\ w[q].pc = "packet"
    /\ extractUdpPayload(w[q].batch[w[q].i].frame) < 0
    /\ WorkerPacket(q)

(* After a rejected frame nothing was submitted and the worker is at the   *)
(* next frame of the batch, or at recycleFrames after the last one.        *)
RejectedFrameSkipped ==
    [][\A q \in Queues :
          RejectsFrame(q) =>
              /\ sock' = sock
              /\ w'[q].pc \in {"packet", "recycle"}
              /\ w'[q].pc = "packet" => w'[q].i = w[q].i + 1]_vars

(* C22: a received frame that fails parsing does not end the worker: the   *)
(* worker raises an error counter, submits nothing for the frame and goes  *)
(* on with the next frame of the batch.                                    *)
ParseFailureCounted ==
    [][\A q \in Queues :
          RejectsFrame(q) =>
              /\ sock' = sock
              /\ w'[q].pc \in {"packet", "recycle"}
              /\ \E c \in (DOMAIN stats) \ ReceivedCounters : stats'[c] # stats[c]]_vars

IsPowerOfTwo(n) == \E k \in 0..30 : n = 2 ^ k

(* C23: the constructor accepts a frame size only when it is a power of    *)
(* two and at least 2048; every other frame size, 0, 1 and 1024 among      *)
(* them, ends in an error.                                                 *)
FrameSizeValidated ==
    (call.fn = "AFXDPSocket" /\ call.done /\ call.result.error = "none")
        => (IsPowerOfTwo(call.frameSize) /\ call.frameSize >= 2048)

(* What the constructor does check: an accepted frame size is a power of   *)
(* two, and every power of two is accepted when mmap succeeds.             *)
FrameSizePowerOfTwo ==
    (call.fn = "AFXDPSocket" /\ call.done) =>
        /\ call.result.error = "none" => IsPowerOfTwo(call.frameSize)
        /\ (IsPowerOfTwo(call.frameSize) /\ call.mmapOk) => call.result.error = "none"

(* C24: a payload longer than the frame size less the 42 bytes of headers  *)
(* makes createUdpPacket return 0 with nothing written, and the send that  *)
(* called it submits no descriptor: the TX ring is as before the call and  *)
(* outstanding_tx_ as pollTxCompletions left it.  A payload that fits      *)
(* gives a frame of 42 bytes more than the payload.                        *)
OversizePayloadNotSent ==
    call.fn = "sendSinglePacketDirect" =>
        LET r == call.result
            packet_len == createUdpPacket(call.payloadLen, FRAME_SIZE)
        IN  /\ call.payloadLen > FRAME_SIZE - 42 =>
                  /\ packet_len = 0
                  /\ ~r.wrote
                  /\ ~r.sent
                  /\ r.reserve = -1
                  /\ r.s.tx = call.before.tx
                  /\ r.s.outstanding_tx_ = r.polled
            /\ call.payloadLen <= FRAME_SIZE - 42 =>
                  /\ packet_len = 42 + call.payloadLen
                  /\ r.wrote
                  /\ r.sent => r.s.tx[Len(r.s.tx)].len = 42 + call.payloadLen

(* A payload one byte too long, sent while a descriptor is on the TX ring  *)
(* and two completions are released by the poll of the same call.          *)
OversizeAfterSends ==
    /\ call.fn = "sendSinglePacketDirect"
    /\ call.payloadLen = FRAME_SIZE - 41
    /\ call.before.tx # <<>>
    /\ call.result.polled = call.before.outstanding_tx_ - TX_BATCH_SIZE

(* The 16-bit words of a header as the network carries them: the byte at  *)
(* the lower address is the high byte.                                     *)
NetworkWord(bytes, i) == 256 * bytes[2 * i - 1] + bytes[2 * i]

RECURSIVE OnesComplementSum(_, _)
OnesComplementSum(bytes, n) ==
    IF n = 0 THEN 0
    ELSE LET t == OnesComplementSum(bytes, n - 1) + NetworkWord(bytes, n)
         IN  IF t >= UINT16_MOD THEN t - UINT16_MOD + 1 ELSE t

(* C25: in every frame createUdpPacket writes, the one's-complement sum of *)
(* the 10 16-bit words of the IPv4 header, the stored checksum among them, *)
(* is 0xFFFF.                                                              *)
IpChecksumVerifies ==
    call.fn = "createUdpPacket" =>
        \A k \in 1..Len(call.frames) :
            /\ Len(call.frames[k].ip) = IP_HLEN
            /\ OnesComplementSum(call.frames[k].ip, 10) = UINT16_MOD - 1

(* A header whose additions carry out of 16 bits: addresses of 255.0.255.x *)
(* on both sides and the longest payload.                                  *)
ChecksumWithCarries ==
    /\ call.fn = "createUdpPacket"
    /\ Len(call.frames) = 1
    /\ call.src_ip = <<255, 0, 255, 255>>
    /\ DestinationAddr(call.destination) = <<255, 0, 255, 1>>
    /\ call.payload.len = FRAME_SIZE - 42
    /\ SumWords([call.frames[1].ip EXCEPT ![11] = 0, ![12] = 0], 10) >= UINT16_MOD

(* C26: two createUdpPacket calls with the same destination, interface MAC *)
(* and address, listen port and payload write the same bytes, whatever     *)
(* happened to the ARP table between them.                                 *)
SynthesisDeterministic ==
    call.fn = "createUdpPacket" =>
        \A j, k \in 1..Len(call.frames) : call.frames[j] = call.frames[k]

(* C27: from the wrapper state before any call of either transmit variant, *)
(* send(address, length) and the direct sequence for the same address and  *)
(* length accept or refuse alike and leave the same TX ring, the same      *)
(* outstanding_tx_ and the same cached completions.                        *)
TransmitVariantsEquivalent ==
    call.fn \in {"send", "sendSinglePacketDirect"} =>
        LET s == call.before
            d == sendSinglePacketDirect(s, call.payloadLen)
            b == send(s, d.frame, createUdpPacket(call.payloadLen, FRAME_SIZE))
        IN  /\ d.sent <=> b.ret = 1
            /\ d.s.tx = b.s.tx
            /\ d.s.outstanding_tx_ = b.s.outstanding_tx_
            /\ d.s.cached_completions_ = b.s.cached_completions_

(* The worker of queue q enters replicatePacket with a frame that parses:  *)
(* the step that takes destinations_mutex_ and copies the registry.        *)
AcquiresMutex(q) ==
    /\ w[q].pc = "packet"
    /\ extractUdpPayload(w[q].batch[w[q].i].frame) >= 0
    /\ WorkerPacket(q)

(* The acquisitions already made for the batch: one for every earlier      *)
(* frame of the batch that parsed.                                         *)
LocksInBatch(wq) ==
    Cardinality({k \in 1..(wq.i - 1) : extractUdpPayload(wq.batch[k].frame) >= 0})

(* C28: a worker takes the registry mutex at most once for a batch that    *)
(* receive() returned, however many packets the batch holds.               *)
OneLockPerBatch ==
    [][\A q \in Queues : AcquiresMutex(q) => LocksInBatch(w[q]) = 0]_vars

(* The descriptors submitted whose completion entry is not yet released. *)
TxUnreleased(s) == Len(s.tx) + Len(s.ktx) + Len(s.cq)

(* What one pollTxCompletions call did, from the wrapper s to t. *)
PollStep(s, t) ==
    LET new_completions == Min(Len(s.cq) - s.cached_completions_, TX_FRAMES)
        cached == s.cached_completions_ + new_completions
    IN  IF s.outstanding_tx_ = 0 THEN t = s
        ELSE IF new_completions > 0 /\ cached >= TX_BATCH_SIZE
        THEN /\ Len(s.cq) - Len(t.cq) = cached
             /\ t.cq = SubSeq(s.cq, cached + 1, Len(s.cq))
             /\ t.outstanding_tx_ = s.outstanding_tx_ - cached
             /\ t.cached_completions_ = 0
             /\ t.tx = s.tx
        ELSE /\ t.cq = s.cq
             /\ t.outstanding_tx_ = s.outstanding_tx_
             /\ t.cached_completions_ = cached
             /\ t.tx = s.tx

(* C29: pollTxCompletions does nothing when outstanding_tx_ is 0;          *)
(* otherwise the entries it peeks are added to cached_completions_ and     *)
(* released only once cached_completions_ reaches TX_BATCH_SIZE, when      *)
(* outstanding_tx_ drops by the number released and cached_completions_    *)
(* returns to 0.  Over any sequence of calls every completion entry is     *)
(* counted once: outstanding_tx_ stays the number of descriptors whose     *)
(* entry is not released, and the entries peeked and not released are      *)
(* entries of the ring.                                                    *)
PollBatchesCompletions ==
    /\ [](\A q \in Queues :
             /\ sock[q].outstanding_tx_ = TxUnreleased(sock[q])
             /\ sock[q].cached_completions_ <= Len(sock[q].cq)
             /\ sock[q].cached_completions_ < TX_BATCH_SIZE)
    /\ [][ApiPoll(0) => PollStep(sock[0], sock'[0])]_vars

(* One release of TX_BATCH_SIZE + 1 entries, one cached by an earlier call *)
(* and the others peeked by the call that released, with a descriptor      *)
(* still outstanding.                                                      *)
ReleasedCachedAndNew ==
    /\ hist[0].released = TX_BATCH_SIZE + 1
    /\ sock[0].cached_completions_ = 0
    /\ sock[0].outstanding_tx_ = 1

(* The frame of the UMEM an address lies in. *)
FrameOf(addr) == addr \div FRAME_SIZE

InTxRegion(addr) == FrameOf(addr) \in 0..(TX_FRAMES - 1)

InRxRegion(addr) == FrameOf(addr) \in TX_FRAMES..(TX_FRAMES + RX_FRAMES - 1)

(* C30: the UMEM partition holds in every state.  Until the first frame    *)
(* arrives the fill ring is as bind left it: the RX_FRAMES addresses       *)
(* (TX_FRAMES + i) * FRAME_SIZE, each once.  Every address on the fill     *)
(* ring, on the RX ring or waiting to be recycled lies in the RX region,   *)
(* every address of a TX descriptor, whether on the TX ring, with the      *)
(* driver or on the completion ring, in the TX region; and every step puts *)
(* only RX-region addresses on the fill ring and only TX-region addresses  *)
(* on the TX ring.                                                         *)
UmemPartition ==
    /\ [](\A q \in Queues :
             /\ delivered[q] = 0 =>
                    sock[q].fq = [i \in 1..RX_FRAMES |-> (TX_FRAMES + (i - 1)) * FRAME_SIZE]
             /\ \A a \in Range(RxLocations(sock[q])) : InRxRegion(a)
             /\ \A a \in Range(TxLocations(sock[q])) : InTxRegion(a))
    /\ [][\A q \in Queues :
             /\ Len(sock'[q].fq) > Len(sock[q].fq) =>
                    \A i \in (Len(sock[q].fq) + 1)..Len(sock'[q].fq) :
                        InRxRegion(sock'[q].fq[i])
             /\ Len(sock'[q].tx) > Len(sock[q].tx) =>
                    InTxRegion(sock'[q].tx[Len(sock'[q].tx)].addr)]_vars

(* The worker of queue 0 has recycled the frames of two packets and has    *)
(* written all TX_FRAMES frames of the TX region, the cursor back at 0.    *)
PartitionAfterWrap ==
    /\ delivered[0] = 2
    /\ w[0].pc = "receive"
    /\ Len(sock[0].fq) = RX_FRAMES
    /\ sock[0].rx = <<>>
    /\ sock[0].prev_umem_tx_frame_ = 0
    /\ stats.packets_sent_per_queue_[0] = TX_FRAMES

(* C31: no ring overflows. The TX ring and the fill ring never hold more   *)
(* entries than they have slots, a worker step adds to the TX ring no more *)
(* descriptors than the reservation of one slot granted, and the fill-ring *)
(* reservation of recycleFrames never fails: every pending address is      *)
(* written to the fill ring, and nothing else is.                          *)
RingsWithinReservation ==
    /\ [](\A q \in Queues : /\ Len(sock[q].tx) <= TX_RING_SIZE
                            /\ Len(sock[q].fq) <= FILL_RING_SIZE
                            /\ Len(sock[q].fq) + Len(sock[q].rx)
                                  + Len(sock[q].pending_recycle_addrs_) <= RX_FRAMES)
    /\ [][\A q \in Queues :
            /\ WorkerStep(q) =>
                  Len(sock'[q].tx) - Len(sock[q].tx)
                      <= xsk_ring_prod__reserve(Len(sock[q].tx), TX_RING_SIZE, 1)
            /\ WorkerRecycle(q) =>
                  sock'[q].fq = sock[q].fq \o sock[q].pending_recycle_addrs_]_vars

(* A worker has recycled a received frame behind the addresses still in    *)
(* the fill ring while the descriptors of its fan-out wait on the TX ring. *)
RecycledBehindFill ==
    \E q \in Queues :
        /\ delivered[q] >= 1
        /\ w[q].pc = "receive"
        /\ Len(sock[q].fq) = RX_FRAMES
        /\ sock[q].fq # BoundSocket.fq
        /\ Len(sock[q].tx) = Len(destinations_)
        /\ Len(destinations_) > 1

(* C32: the order of the wrapper's life is enforced. bind on a wrapper     *)
(* whose setupUMem has not succeeded throws and creates no socket;         *)
(* registerXskMap throws and leaves xsks_map alone when no classifier is   *)
(* loaded or the wrapper has no socket; and after close() every call       *)
(* guarded by checkOpen throws "Socket is closed" and leaves the rings,    *)
(* the counters, the wrapper and the map as they were.                     *)
LifecycleEnforced ==
    [][\A q \in Queues, op \in CheckedOps, ok \in BOOLEAN :
          WrapCall(q, op, ok) =>
              /\ (op = "bind" /\ life.wrapper[q].umem = 0) =>
                    /\ call'.result \notin {"ok"}
                    /\ sock' = sock /\ life'.wrapper = life.wrapper
              /\ (op = "registerXskMap" /\ (~life.xdp_prog \/ life.wrapper[q].xsk = 0)) =>
                    /\ call'.result \notin {"ok"}
                    /\ sock' = sock /\ life'.xsks_map = life.xsks_map
                    /\ life'.registered = life.registered
              /\ sock[q].closed_ =>
                    /\ call'.result = "Socket is closed"
                    /\ sock' = sock /\ life' = life /\ stats' = stats]_vars

(* A wrapper that went through setupUMem, bind and registerXskMap was      *)
(* closed, and the registerXskMap call made after that threw.              *)
CallAfterCloseThrew ==
    /\ call = [fn |-> "registerXskMap", queue |-> 0, result |-> "Socket is closed"]
    /\ life.closeCalls[0] = 1
    /\ life.lastClose[0].scanned
    /\ life.lastClose[0].xsk = SocketOf(0)
    /\ life.xdp_prog

(* C33: extractUdpPayload accepts a frame exactly when it is at least 42   *)
(* bytes long, its EtherType is IPv4, its protocol is UDP, its IP header   *)
(* is at least 20 bytes, the frame holds the three headers, and the UDP    *)
(* length is at least 8 and at most what follows the IP header. The        *)
(* payload of an accepted frame starts behind the UDP header, is           *)
(* udp_len - 8 bytes long and ends inside the frame; for a rejected frame  *)
(* replicatePacket goes on with no payload.                                *)
PayloadInsideFrame ==
    call.fn = "extractUdpPayload" =>
        LET f == call.frame
        IN  /\ call.accepted <=>
                  /\ f.len >= 42
                  /\ f.h_proto = ETH_P_IP
                  /\ f.protocol = IPPROTO_UDP
                  /\ f.ihl * 4 >= 20
                  /\ f.len >= 14 + f.ihl * 4 + 8
                  /\ 8 <= f.udp_len /\ f.udp_len <= f.len - 14 - f.ihl * 4
            /\ call.accepted =>
                  /\ call.used.offset = 14 + f.ihl * 4 + 8
                  /\ call.used.len = f.udp_len - 8
                  /\ call.used.offset + call.used.len <= f.len
            /\ ~call.accepted => call.used = NoPayload

(* A frame with IP options whose UDP datagram ends well before the frame   *)
(* does was accepted.                                                      *)
AcceptedWithOptionsAndPadding ==
    /\ call.fn = "extractUdpPayload"
    /\ call.accepted
    /\ call.frame.ihl = 6
    /\ call.used.len > 0
    /\ call.used.offset + call.used.len < call.frame.len

(* The worker of queue q handles a frame that replicatePacket gives up on  *)
(* before the fan-out: the frame does not parse, or the registry is empty. *)
SkipsFrame(q) ==
    /\ w[q].pc = "packet"
    /\ extractUdpPayload(w[q].batch[w[q].i].frame) < 0 \/ destinations_ = <<>>
    /\ WorkerPacket(q)

OneProgramOneAttachment ==
    /\ Cardinality(call.held) <= 1
    /\ Cardinality(call.attached) <= 1
    /\ call.result = "XDP program attach failed" => call.held = {}
    /\ call.fn = "unloadXdpProgram" => call.held = {}

(* C36: a loadXdpProgram call that attaches does so in the mode its own    *)
(* native_mode argument selects, native when true and SKB when false, and  *)
(* a detach is asked in the mode of the attachment it undoes.              *)
AttachModeFollowsArgument ==
    /\ (call.fn = "loadXdpProgram" /\ call.attach # NoAttach) =>
           call.attach.mode = IF call.nativeMode THEN XDP_MODE_NATIVE ELSE XDP_MODE_SKB
    /\ \A a \in call.undone : call.detach.mode = a.mode

(* C37: on the worker path outstanding_tx_ never exceeds the number of TX  *)
(* frames the cursor cycles over, and cached_completions_ never exceeds    *)
(* outstanding_tx_.                                                        *)
OutstandingWithinTxFrames ==
    \A q \in Queues :
        /\ sock[q].outstanding_tx_ <= TX_FRAMES
        /\ sock[q].cached_completions_ <= sock[q].outstanding_tx_

(* cached_completions_ never exceeds outstanding_tx_, so the subtraction   *)
(* in pollTxCompletions does not wrap.                                     *)
CachedWithinOutstanding ==
    \A q \in Queues : sock[q].cached_completions_ <= sock[q].outstanding_tx_

(* initialize() threw and the process has ended: the statistics thread    *)
(* was never started and main has returned.                                *)
ExitedAfterFailedInitialize ==
    /\ life.main = "exited"
    /\ life.stats = "none"
    /\ ~life.crashed

(* Every wrapper initialize() created has been closed. *)
CreatedWrappersClosed ==
    \A q \in Queues : life.wrapper[q].present => sock[q].closed_

(* C38: when initialize() fails after loadXdpProgram succeeded, the        *)
(* process ends with the classifier program detached and every wrapper it  *)
(* created closed.                                                         *)
FailedInitializeCleansUp ==
    ExitedAfterFailedInitialize => ~life.xdp_prog /\ CreatedWrappersClosed

(* When initialize() fails, every wrapper it created is closed by the time *)
(* the process ends.                                                       *)
FailedInitializeClosesWrappers ==
    ExitedAfterFailedInitialize => CreatedWrappersClosed

(* The worker of queue q copies the registry in this step. *)
TakesSnapshot(q) ==
    /\ w[q].pc = "packet"
    /\ extractUdpPayload(w[q].batch[w[q].i].frame) >= 0
    /\ WorkerPacket(q)

(* C39: addDestination holds the registry mutex from the insert to the end *)
(* of its ARP prime: the mutex is held exactly while a prime runs, the     *)
(* registry grows only in the step that starts one, and no worker copies   *)
(* the registry and no getStatistics reads it during a prime, so a copy    *)
(* holds only destinations whose prime has finished. Every step that       *)
(* enters the critical section finds the mutex free.                       *)
PrimeUnderMutex ==
    /\ [](destinations_mutex_ = "control" <=> ctl = "arp")
    /\ [][/\ Len(destinations_') > Len(destinations_) =>
                ctl = "idle" /\ ctl' = "arp" /\ destinations_mutex_' = "control"
          /\ \A q \in Queues :
                TakesSnapshot(q) =>
                    /\ ctl = "idle" /\ destinations_mutex_ = "free"
                    /\ w'[q].snapshot = getDestinations(destinations_)
          /\ StatsPrint => ctl = "idle" /\ destinations_mutex_ = "free"
          /\ destinations_' # destinations_ => destinations_mutex_ = "free"]_vars

(* addDestination is in its ARP prime, the mutex held, while both workers  *)
(* hold a valid frame and wait for the mutex to copy the registry.         *)
WorkersWaitForPrime ==
    /\ ctl = "arp"
    /\ destinations_mutex_ = "control"
    /\ \A q \in Queues :
          /\ w[q].pc = "packet"
          /\ extractUdpPayload(w[q].batch[w[q].i].frame) >= 0
    /\ Len(destinations_) = Cardinality(CtlKeys)

=============================================================================
